---- MODULE Spec2Model ----
(***************************************************************************)
(* A model of the masked-grid geometry core of PyAutoArray:                *)
(*   - Region2D (validated rectangular pixel regions and their slices),   *)
(*   - the mask hierarchy of autoarray/structures/mask.py (ScaledMask and  *)
(*     the masks and grids derived from it).                               *)
(* Indices are 0-based as in the Python source.  A 2D array is a record    *)
(* [shape |-> <<H, W>>, data |-> [<<r, c>> |-> value]].                     *)
(***************************************************************************)
EXTENDS Integers, Sequences, FiniteSets, TLC

VARIABLES
    op,       \* name of the last operation that ran
    call,     \* the arguments of the last operation
    err,      \* "none", or the name of the exception the last operation raised
    region,   \* the Region2D object held by the client (NoValue before construction)
    array,    \* the 2D array (frame) the client slices with the region
    mask,     \* the mask object held by the client (NoValue before construction)
    out,      \* the value returned by the last operation (NoValue when it raised)
    heap,     \* the boolean buffers of the mask objects, by buffer number
    memo      \* what the memoizers of the mask class have stored

vars == <<op, call, err, region, array, mask, out, heap, memo>>

NoValue == [none |-> TRUE]

----------------------------------------------------------------------------
(* Bounds of the model.                                                     *)

MaxRows == 3
MaxCols == 3
MaxPixels == 9
MaxCoord == 3

----------------------------------------------------------------------------
(* 2D arrays.                                                               *)

Pixels(shape) == (0 .. shape[1] - 1) \X (0 .. shape[2] - 1)

\* the shapes of at most MaxRows rows, MaxCols columns and MaxPixels pixels
Shapes == {s \in (1 .. MaxRows) \X (1 .. MaxCols) : s[1] * s[2] <= MaxPixels}

\* numpy basic slicing a[y0:y1, x0:x1] for non-negative bounds: the stop of
\* each axis is clipped to the array's extent.
SliceRows(a, s) == {r \in 0 .. a.shape[1] - 1 : s[1] <= r /\ r < s[2]}
SliceCols(a, s) == {c \in 0 .. a.shape[2] - 1 : s[3] <= c /\ c < s[4]}

GetSlice(a, s) ==
    LET nr == Cardinality(SliceRows(a, s))
        nc == Cardinality(SliceCols(a, s))
    IN  [shape |-> <<nr, nc>>,
         data  |-> [p \in (0 .. nr - 1) \X (0 .. nc - 1) |->
                        a.data[<<s[1] + p[1], s[3] + p[2]>>]]]

\* a[y0:y1, x0:x1] = v, the block v being indexed in the coordinates of the slice.
SetSlice(a, s, v) ==
    [a EXCEPT !.data =
        [p \in Pixels(a.shape) |->
            IF p[1] \in SliceRows(a, s) /\ p[2] \in SliceCols(a, s)
            THEN v.data[<<p[1] - s[1], p[2] - s[3]>>]
            ELSE a.data[p]]]

----------------------------------------------------------------------------
(* Region2D.                                                                *)

\* (faulty variant: an empty extent, y0 = y1 or x0 = x1, is let through)
Region2D_new_allows_empty(t) ==
    IF t[1] < 0 \/ t[2] < 0 \/ t[3] < 0 \/ t[4] < 0
       \/ t[1] > t[2] \/ t[3] > t[4]
    THEN [err |-> "RegionException", value |-> NoValue]
    ELSE [err |-> "none", value |-> [region |-> t]]

\* Region2D(region=(y0, y1, x0, x1))
Region2D_new(t) ==
    IF t[1] < 0 \/ t[2] < 0 \/ t[3] < 0 \/ t[4] < 0
       \/ t[1] >= t[2] \/ t[3] >= t[4]
    THEN [err |-> "RegionException", value |-> NoValue]
    ELSE [err |-> "none", value |-> [region |-> t]]

y0(rg) == rg.region[1]
y1(rg) == rg.region[2]
x0(rg) == rg.region[3]
x1(rg) == rg.region[4]
total_rows(rg) == y1(rg) - y0(rg)
total_columns(rg) == x1(rg) - x0(rg)

\* (faulty variant: the row and the column extents change places)
region_slice_transposed(rg) == <<x0(rg), x1(rg), y0(rg), y1(rg)>>

\* Region2D.slice: np.s_[y0:y1, x0:x1]
region_slice(rg) == <<y0(rg), y1(rg), x0(rg), x1(rg)>>

----------------------------------------------------------------------------
(* The client of Region2D: builds regions, extracts and assigns through     *)
(* their slices (test_region.py).                                           *)

Coords == -1 .. MaxCoord

\* np.array([[1, 2, 3], [4, 5, 6], [7, 8, 9]]) and its analogues of other shapes
CountingArray(shape) ==
    [shape |-> shape, data |-> [p \in Pixels(shape) |-> p[1] * shape[2] + p[2] + 1]]
OnesArray(shape) == [shape |-> shape, data |-> [p \in Pixels(shape) |-> 1]]
ZerosArray(shape) == [shape |-> shape, data |-> [p \in Pixels(shape) |-> 0]]

Frames == {CountingArray(s) : s \in Shapes} \cup {OnesArray(s) : s \in Shapes}

InitRegion ==
    /\ heap = NoValue
    /\ memo = NoValue
    /\ op = "init"
    /\ call = NoValue
    /\ err = "none"
    /\ region = NoValue
    /\ array \in Frames
    /\ mask = NoValue
    /\ out = NoValue

\* A region is built once, first (it is immutable and used to slice, never
\* rebuilt); a construction that raised leaves the client without a region.
NewRegion ==
    /\ op = "init"
    /\ \E t \in Coords \X Coords \X Coords \X Coords :
         LET r == Region2D_new(t)
         IN  /\ op' = "Region2D"
             /\ call' = [region |-> t]
             /\ err' = r.err
             /\ out' = r.value
             /\ region' = IF r.err = "none" THEN r.value ELSE region
             /\ UNCHANGED <<heap, memo, array, mask>>

\* new_frame = frame[region.slice]
ExtractRegion ==
    /\ region # NoValue
    /\ op' = "extract"
    /\ call' = [region |-> region.region]
    /\ err' = "none"
    /\ out' = GetSlice(array, region_slice(region))
    /\ UNCHANGED <<heap, memo, region, array, mask>>

\* frame[region.slice] = 0
SetRegionToZeros ==
    /\ region # NoValue
    /\ op' = "set"
    /\ call' = [region |-> region.region, before |-> array]
    /\ err' = "none"
    /\ array' = SetSlice(array, region_slice(region), ZerosArray(array.shape))
    /\ out' = NoValue
    /\ UNCHANGED <<heap, memo, region, mask>>

\* frame[region.slice] += image[region.slice], image = np.ones(frame.shape)
\* (a fresh frame: the sum is taken once)
AddRegionFromImage ==
    /\ region # NoValue
    /\ array \in Frames
    /\ LET s == region_slice(region)
           image == GetSlice(OnesArray(array.shape), s)
           old == GetSlice(array, s)
           sum == [shape |-> old.shape,
                   data  |-> [p \in Pixels(old.shape) |-> old.data[p] + image.data[p]]]
       IN  array' = SetSlice(array, s, sum)
    /\ op' = "add"
    /\ call' = [region |-> region.region, before |-> array]
    /\ err' = "none"
    /\ out' = NoValue
    /\ UNCHANGED <<heap, memo, region, mask>>

NextRegion == NewRegion \/ ExtractRegion \/ SetRegionToZeros \/ AddRegionFromImage

SpecRegion == InitRegion /\ [][NextRegion]_vars

----------------------------------------------------------------------------
(* Claims about Region2D.                                                   *)

\* C1: constructing a Region from (y0, y1, x0, x1) raises RegionException and
\* yields no Region whenever y0 >= y1, or x0 >= x1, or a coordinate is negative;
\* for 0 <= y0 < y1 and 0 <= x0 < x1 it succeeds and the region equals the tuple.
C1_RegionConstruction ==
    op = "Region2D" =>
        LET t == call.region
        IN  IF t[1] >= t[2] \/ t[3] >= t[4] \/ (\E i \in 1 .. 4 : t[i] < 0)
            THEN err = "RegionException" /\ out = NoValue /\ region = NoValue
            ELSE /\ err = "none"
                 /\ out # NoValue
                 /\ out.region = t
                 /\ region = out
                 /\ <<y0(region), y1(region), x0(region), x1(region)>> = t

\* an empty extent (y0 = y1, nothing negative) was rejected
C1_Witness ==
    /\ op = "Region2D"
    /\ call.region = <<2, 2, 1, 2>>
    /\ err = "RegionException"

RegionFits == array.shape[1] >= y1(region) /\ array.shape[2] >= x1(region)

InRegion(p) ==
    /\ y0(region) <= p[1] /\ p[1] < y1(region)
    /\ x0(region) <= p[2] /\ p[2] < x1(region)

\* C2: for a valid Region and an array of at least y1 rows and x1 columns,
\* array[region.slice] is the block of total_rows x total_columns elements at
\* rows y0..y1-1 and columns x0..x1-1 in their original order, and an
\* assignment through region.slice changes those elements and no other.
C2_SliceExtractAssign ==
    /\ (op = "extract" /\ RegionFits) =>
          /\ out.shape = <<total_rows(region), total_columns(region)>>
          /\ DOMAIN out.data =
                (0 .. total_rows(region) - 1) \X (0 .. total_columns(region) - 1)
          /\ \A i \in 0 .. total_rows(region) - 1 :
                \A j \in 0 .. total_columns(region) - 1 :
                    out.data[<<i, j>>] = array.data[<<y0(region) + i, x0(region) + j>>]
    /\ (op \in {"set", "add"} /\ RegionFits) =>
          /\ array.shape = call.before.shape
          /\ DOMAIN array.data = DOMAIN call.before.data
          /\ \A p \in Pixels(array.shape) :
                array.data[p] =
                    IF InRegion(p)
                    THEN (IF op = "set" THEN 0 ELSE call.before.data[p] + 1)
                    ELSE call.before.data[p]

\* Region (1, 3, 1, 3) of [[1, 2, 3], [4, 5, 6], [7, 8, 9]] is [[5, 6], [8, 9]]
C2_Witness ==
    /\ op = "extract"
    /\ region.region = <<1, 3, 1, 3>>
    /\ array = CountingArray(<<3, 3>>)
    /\ out.shape = <<2, 2>>
    /\ out.data[<<0, 0>>] = 5 /\ out.data[<<0, 1>>] = 6
    /\ out.data[<<1, 0>>] = 8 /\ out.data[<<1, 1>>] = 9

----------------------------------------------------------------------------
(* Masks (autoarray/structures/mask.py).  A mask is a boolean 2D array,     *)
(* True = masked, with the metadata the class attaches to it.              *)
(* Pixel scales and origins are integers here; physical coordinates are    *)
(* kept as exact fractions (numerators over a stated denominator).         *)

Grids(shape) == [Pixels(shape) -> BOOLEAN]

\* np.full(fill_value=v, shape=shape)
np_full(shape, v) == [p \in Pixels(shape) |-> v]

\* (faulty variant: sub_length is not squared)
AbstractSubMask_new_linear(array_2d, shape, sub_size) ==
    IF sub_size = 0
    THEN [err |-> "ZeroDivisionError", value |-> NoValue]
    ELSE [err |-> "none",
          value |-> [shape |-> shape, data |-> array_2d,
                     sub_size |-> sub_size, sub_length |-> sub_size]]

\* AbstractSubMask.__new__: the array viewed as a mask, with sub_size and
\* sub_length = int(sub_size ** 2.0); sub_fraction = 1.0 / sub_length divides
\* by zero when sub_size is 0. No other value of sub_size is refused.
AbstractSubMask_new(array_2d, shape, sub_size) ==
    IF sub_size * sub_size = 0
    THEN [err |-> "ZeroDivisionError", value |-> NoValue]
    ELSE [err |-> "none",
          value |-> [shape |-> shape, data |-> array_2d,
                     sub_size |-> sub_size, sub_length |-> sub_size * sub_size]]

\* (faulty variant: only negative scales are rejected, and only the first is looked at)
ScaledMask_new_lenient(array_2d, shape, pixel_scales, sub_size, origin) ==
    IF pixel_scales[1] < 0
    THEN [err |-> "MaskException", value |-> NoValue]
    ELSE [err |-> "none",
          value |-> [shape |-> shape, data |-> array_2d,
                     sub_size |-> sub_size, sub_length |-> sub_size * sub_size,
                     pixel_scales |-> pixel_scales, origin |-> origin]]

\* ScaledMask.__new__: AbstractSubMask.__new__ runs first, then the test of
\* the pixel scales
ScaledMask_new(array_2d, shape, pixel_scales, sub_size, origin) ==
    LET r == AbstractSubMask_new(array_2d, shape, sub_size)
        obj == r.value
    IN  IF r.err # "none"
        THEN r
        ELSE IF pixel_scales[1] <= 0 \/ pixel_scales[2] <= 0
        THEN [err |-> "MaskException", value |-> NoValue]
        ELSE [err |-> "none",
              value |-> [shape |-> obj.shape, data |-> obj.data,
                         sub_size |-> obj.sub_size, sub_length |-> obj.sub_length,
                         pixel_scales |-> pixel_scales, origin |-> origin]]

\* AbstractMask.central_pixel_coordinates, doubled: (H - 1, W - 1) stands for
\* ((H - 1) / 2, (W - 1) / 2)
central_pixel_coordinates_x2(m) == <<m.shape[1] - 1, m.shape[2] - 1>>

Unmasked(m) == {p \in Pixels(m.shape) : ~m.data[p]}

\* (faulty variant: counts the masked pixels)
pixels_in_mask_masked(m) == Cardinality({p \in Pixels(m.shape) : m.data[p]})

\* AbstractMask.pixels_in_mask: int(np.size(self) - np.sum(self))
pixels_in_mask(m) ==
    m.shape[1] * m.shape[2] - Cardinality({p \in Pixels(m.shape) : m.data[p]})

----------------------------------------------------------------------------
(* mask_util: the geometry kernel.                                          *)

\* the pixels of a shape in row-major order (top-to-bottom, left-to-right)
ScanOrder(shape) ==
    [k \in 1 .. shape[1] * shape[2] |-> <<(k - 1) \div shape[2], (k - 1) % shape[2]>>]

Neighbours4(p) ==
    {<<p[1] - 1, p[2]>>, <<p[1] + 1, p[2]>>, <<p[1], p[2] - 1>>, <<p[1], p[2] + 1>>}

\* mask_util.sub_mask_2d_index_for_sub_mask_1d_index_from_mask_and_sub_size with
\* sub_size = 1: the 2D index of every unmasked pixel, in scan order
mask_2d_index_for_mask_1d_index_from_mask(m) ==
    SelectSeq(ScanOrder(m.shape), LAMBDA p : ~m.data[p])

\* an unmasked pixel with a 4-connected neighbour that is masked or off the grid
IsEdgePixel(m, p) ==
    /\ ~m.data[p]
    /\ \E q \in Neighbours4(p) : q \notin Pixels(m.shape) \/ m.data[q]

\* mask_util.edge_1d_indexes_from_mask: the (0-based) positions, in the scan
\* order of the unmasked pixels, of the edge pixels
edge_1d_indexes_from_mask(m) ==
    LET table == mask_2d_index_for_mask_1d_index_from_mask(m)
    IN  SelectSeq([k \in 1 .. Len(table) |-> k - 1],
                  LAMBDA k : IsEdgePixel(m, table[k + 1]))

\* the masked pixels joined to the outside of the grid through masked pixels
RECURSIVE GrowExterior(_, _)
GrowExterior(m, ext) ==
    LET more == {p \in Pixels(m.shape) \ ext :
                    /\ m.data[p]
                    /\ \E q \in Neighbours4(p) : q \notin Pixels(m.shape) \/ q \in ext}
    IN  IF more = {} THEN ext ELSE GrowExterior(m, ext \cup more)

Exterior(m) == GrowExterior(m, {})

\* an edge pixel on the outer boundary: one of its 4-connected neighbours is
\* off the grid or is a masked pixel joined to the outside
IsBorderPixelIn(m, ext, p) ==
    /\ ~m.data[p]
    /\ \E q \in Neighbours4(p) : q \notin Pixels(m.shape) \/ q \in ext

\* mask_util.border_1d_indexes_from_mask
border_1d_indexes_from_mask(m) ==
    LET table == mask_2d_index_for_mask_1d_index_from_mask(m)
        ext == Exterior(m)
    IN  SelectSeq([k \in 1 .. Len(table) |-> k - 1],
                  LAMBDA k : IsBorderPixelIn(m, ext, table[k + 1]))

\* mask_util.blurring_mask_from_mask_and_kernel_shape: every unmasked pixel
\* unmasks, in the blurring mask, the masked pixels under a kernel centred on it
blurring_mask_from_mask_and_kernel_shape(m, kernel_shape) ==
    LET hy == kernel_shape[1] \div 2
        hx == kernel_shape[2] \div 2
        reached == UNION {
            {q \in (p[1] - hy .. p[1] + hy) \X (p[2] - hx .. p[2] + hx) :
                q \in Pixels(m.shape) /\ m.data[q]} : p \in Unmasked(m)}
    IN  [p \in Pixels(m.shape) |-> p \notin reached]

----------------------------------------------------------------------------
(* mask_util: the region-membership builders.  A pixel is unmasked iff the  *)
(* physical coordinate of its centre lies in the shape.  Radii and centres  *)
(* are given doubled (r_x2 = 2 r), so that half-integers are exact.         *)

\* twice the physical (y, x) of the centre of pixel p, for an origin at (0, 0)
PixelCentre_x2(shape, pixel_scales, p) ==
    <<-pixel_scales[1] * (2 * p[1] - (shape[1] - 1)),
       pixel_scales[2] * (2 * p[2] - (shape[2] - 1))>>

\* four times the squared distance of the centre of pixel p to `centre`
RadiusSq_x4(shape, pixel_scales, centre_x2, p) ==
    LET c == PixelCentre_x2(shape, pixel_scales, p)
    IN  (c[1] - centre_x2[1]) * (c[1] - centre_x2[1])
        + (c[2] - centre_x2[2]) * (c[2] - centre_x2[2])

\* mask_util.mask_circular_from_shape_pixel_scales_and_radius
mask_circular_from_shape_pixel_scales_and_radius(shape, pixel_scales, radius_x2, centre_x2) ==
    [p \in Pixels(shape) |->
        ~(RadiusSq_x4(shape, pixel_scales, centre_x2, p) <= radius_x2 * radius_x2)]

\* mask_util.mask_circular_annular_from_shape_pixel_scales_and_radii
mask_circular_annular_from_shape_pixel_scales_and_radii(shape, pixel_scales, inner_x2, outer_x2, centre_x2) ==
    [p \in Pixels(shape) |->
        LET d == RadiusSq_x4(shape, pixel_scales, centre_x2, p)
        IN  ~(inner_x2 * inner_x2 <= d /\ d <= outer_x2 * outer_x2)]

\* mask_util.mask_circular_anti_annular_from_shape_pixel_scales_and_radii:
\* unmasked inside the inner circle and between the outer and the second outer
mask_circular_anti_annular_from_shape_pixel_scales_and_radii(shape, pixel_scales, inner_x2, outer_x2, outer_2_x2, centre_x2) ==
    [p \in Pixels(shape) |->
        LET d == RadiusSq_x4(shape, pixel_scales, centre_x2, p)
        IN  ~(d <= inner_x2 * inner_x2
              \/ (outer_x2 * outer_x2 <= d /\ d <= outer_2_x2 * outer_2_x2))]

\* whether the centre of pixel p lies in the ellipse of major axis radius
\* major_x2 / 2 and axis ratio axis_ratio[1] / axis_ratio[2], turned by phi
\* degrees (phi in {0, 90}: the rotations that are exact)
InEllipse(shape, pixel_scales, major_x2, axis_ratio, phi, centre_x2, p) ==
    LET c == PixelCentre_x2(shape, pixel_scales, p)
        dy == c[1] - centre_x2[1]
        dx == c[2] - centre_x2[2]
        along == IF phi = 0 THEN dx ELSE dy
        across == IF phi = 0 THEN dy ELSE dx
        qn == axis_ratio[1]
        qd == axis_ratio[2]
    IN  qn * qn * along * along + qd * qd * across * across
            <= qn * qn * major_x2 * major_x2

\* mask_util.mask_elliptical_from_shape_pixel_scales_and_radius
mask_elliptical_from_shape_pixel_scales_and_radius(shape, pixel_scales, major_x2, axis_ratio, phi, centre_x2) ==
    [p \in Pixels(shape) |->
        ~InEllipse(shape, pixel_scales, major_x2, axis_ratio, phi, centre_x2, p)]

\* mask_util.mask_elliptical_annular_from_shape_pixel_scales_and_radius
mask_elliptical_annular_from_shape_pixel_scales_and_radius(shape, pixel_scales, inner, outer, centre_x2) ==
    [p \in Pixels(shape) |->
        ~(/\ InEllipse(shape, pixel_scales, outer.major_x2, outer.axis_ratio, outer.phi, centre_x2, p)
          /\ ~InEllipse(shape, pixel_scales, inner.major_x2, inner.axis_ratio, inner.phi, centre_x2, p))]

----------------------------------------------------------------------------
(* array_util, binning_util, grid_util.                                     *)

\* int(a / b) for b > 0: the quotient truncated towards zero
TruncDiv(a, b) == IF a >= 0 THEN a \div b ELSE -((-a) \div b)

\* array_util.resized_array_2d_from_array_2d_and_resized_shape applied to a
\* mask: the result has the new shape, is centred on pixel `origin` of the
\* input (on its geometric centre for the sentinel (-1, -1)), copies the input
\* where the two overlap and is masked (True) on the new border.
resized_array_2d_from_array_2d_and_resized_shape(a, resized_shape, origin) ==
    LET centre == IF origin = <<-1, -1>>
                  THEN <<a.shape[1] \div 2, a.shape[2] \div 2>>
                  ELSE origin
        y_min == centre[1] - resized_shape[1] \div 2
        x_min == centre[2] - resized_shape[2] \div 2
    IN  [p \in Pixels(resized_shape) |->
            LET q == <<y_min + p[1], x_min + p[2]>>
            IN  IF q \in Pixels(a.shape) THEN a.data[q] ELSE TRUE]

CeilDiv(a, b) == (a + b - 1) \div b

binned_shape(shape, f) == <<CeilDiv(shape[1], f), CeilDiv(shape[2], f)>>

\* binning_util divides the sides of the mask by the factor before it builds
\* anything: a factor of 0 is a division by zero, a negative factor gives
\* sides below zero, which no array can have
binning_error(f) ==
    IF f = 0 THEN "ZeroDivisionError" ELSE IF f < 0 THEN "ValueError" ELSE "none"

\* binning_util.binned_up_mask_from_mask_2d_and_bin_up_factor: the mask is
\* padded (masked) to a multiple of the factor; a binned pixel is masked iff
\* every pixel of its block is masked.
binned_up_mask_from_mask_2d_and_bin_up_factor(m, f) ==
    LET bs == binned_shape(m.shape, f)
        ps == <<bs[1] * f, bs[2] * f>>
        padded == resized_array_2d_from_array_2d_and_resized_shape(m, ps, <<-1, -1>>)
    IN  [p \in Pixels(bs) |->
            \A d \in (0 .. f - 1) \X (0 .. f - 1) :
                padded[<<p[1] * f + d[1], p[2] * f + d[2]>>]]

\* The physical (y, x) of sub-pixel (y1, x1) of pixel p, as numerators over the
\* denominator 2 * sub_size:
\*   y = oy - sy * (r - (H - 1) / 2) + sy / 2 - (y1 + 1/2) * sy / sub_size
\*   x = ox + sx * (c - (W - 1) / 2) - sx / 2 + (x1 + 1/2) * sx / sub_size
SubPixelCoordinate(shape, pixel_scales, sub_size, origin, p, y1s, x1s) ==
    <<sub_size * (2 * origin[1] - pixel_scales[1] * (2 * p[1] - (shape[1] - 1)))
        + sub_size * pixel_scales[1] - (2 * y1s + 1) * pixel_scales[1],
      sub_size * (2 * origin[2] + pixel_scales[2] * (2 * p[2] - (shape[2] - 1)))
        - sub_size * pixel_scales[2] + (2 * x1s + 1) * pixel_scales[2]>>

\* grid_util.grid_1d_from_mask_pixel_scales_sub_size_and_origin: one (y, x) per
\* unmasked sub-pixel; pixels in scan order, the sub-pixels of a pixel in scan
\* order within it.  [den, pts]: every coordinate of pts is a numerator over den.
grid_1d_from_mask_pixel_scales_sub_size_and_origin(m, pixel_scales, sub_size, origin) ==
    LET table == mask_2d_index_for_mask_1d_index_from_mask(m)
        n == sub_size * sub_size
    IN  [den |-> 2 * sub_size,
         pts |-> [k \in 1 .. Len(table) * n |->
                    SubPixelCoordinate(m.shape, pixel_scales, sub_size, origin,
                        table[(k - 1) \div n + 1],
                        ((k - 1) % n) \div sub_size,
                        ((k - 1) % n) % sub_size)]]

\* grid_util.grid_1d_from_shape_pixel_scales_sub_size_and_origin: the same over
\* every pixel of the shape
grid_1d_from_shape_pixel_scales_sub_size_and_origin(shape, pixel_scales, sub_size, origin) ==
    grid_1d_from_mask_pixel_scales_sub_size_and_origin(
        [shape |-> shape, data |-> np_full(shape, FALSE)], pixel_scales, sub_size, origin)

\* mapping.grid_from_grid_1d / grid_from_sub_grid_1d: the 1D coordinates as a
\* Grid bound to the mask; the coordinates and their order are kept
grid_from_grid_1d(m, grid_1d) == grid_1d

----------------------------------------------------------------------------
(* AbstractMask and ScaledMask: derived index tables, masks and grids.      *)

\* AbstractMask._mask_2d_index_for_mask_1d_index
mask_2d_index_for_mask_1d_index(m) == mask_2d_index_for_mask_1d_index_from_mask(m)

\* AbstractMask._edge_1d_indexes
edge_1d_indexes(m) == edge_1d_indexes_from_mask(m)

\* AbstractMask._edge_2d_indexes: table[edge_1d_indexes]
edge_2d_indexes(m) ==
    LET table == mask_2d_index_for_mask_1d_index(m)
        idx == edge_1d_indexes(m)
    IN  [i \in 1 .. Len(idx) |-> table[idx[i] + 1]]

\* AbstractMask._border_1d_indexes
border_1d_indexes(m) == border_1d_indexes_from_mask(m)

\* AbstractMask._border_2d_indexes: table[border_1d_indexes]
border_2d_indexes(m) ==
    LET table == mask_2d_index_for_mask_1d_index(m)
        idx == border_1d_indexes(m)
    IN  [i \in 1 .. Len(idx) |-> table[idx[i] + 1]]

\* mask = np.full(True, shape); mask[idx[:, 0], idx[:, 1]] = False
MaskFrom2dIndexes(shape, idx) ==
    [p \in Pixels(shape) |-> ~(\E i \in 1 .. Len(idx) : idx[i] = p)]

\* (faulty variant: the 1D indexes are used as scan positions of the whole grid)
edge_mask_flat(m) ==
    LET idx == edge_1d_indexes(m)
        scan == ScanOrder(m.shape)
    IN  ScaledMask_new(
            MaskFrom2dIndexes(m.shape, [i \in 1 .. Len(idx) |-> scan[idx[i] + 1]]),
            m.shape, m.pixel_scales, 1, m.origin)

\* AbstractMask.edge_mask
edge_mask(m) ==
    ScaledMask_new(MaskFrom2dIndexes(m.shape, edge_2d_indexes(m)),
                   m.shape, m.pixel_scales, 1, m.origin)

\* (faulty variant: the border mask is built from the edge indexes)
border_mask_from_edge(m) ==
    ScaledMask_new(MaskFrom2dIndexes(m.shape, edge_2d_indexes(m)),
                   m.shape, m.pixel_scales, 1, m.origin)

\* AbstractMask.border_mask
border_mask(m) ==
    ScaledMask_new(MaskFrom2dIndexes(m.shape, border_2d_indexes(m)),
                   m.shape, m.pixel_scales, 1, m.origin)

\* (faulty variant: the footprint is taken as (width, height))
blurring_mask_from_kernel_shape_transposed(m, kernel_shape) ==
    IF kernel_shape[1] % 2 = 0 \/ kernel_shape[2] % 2 = 0
    THEN [err |-> "MaskException", value |-> NoValue]
    ELSE ScaledMask_new(
            blurring_mask_from_mask_and_kernel_shape(m, <<kernel_shape[2], kernel_shape[1]>>),
            m.shape, m.pixel_scales, 1, <<0, 0>>)

\* (faulty variant: only the first dimension of the kernel is tested)
blurring_mask_from_kernel_shape_first_only(m, kernel_shape) ==
    IF kernel_shape[1] % 2 = 0
    THEN [err |-> "MaskException", value |-> NoValue]
    ELSE ScaledMask_new(blurring_mask_from_mask_and_kernel_shape(m, kernel_shape),
                        m.shape, m.pixel_scales, 1, <<0, 0>>)

\* AbstractMask.blurring_mask_from_kernel_shape (origin is not passed on: the
\* constructor's default (0.0, 0.0) applies)
blurring_mask_from_kernel_shape(m, kernel_shape) ==
    IF kernel_shape[1] % 2 = 0 \/ kernel_shape[2] % 2 = 0
    THEN [err |-> "MaskException", value |-> NoValue]
    ELSE ScaledMask_new(blurring_mask_from_mask_and_kernel_shape(m, kernel_shape),
                        m.shape, m.pixel_scales, 1, <<0, 0>>)

\* the conversion with the origin left out of both axes
pixel_coordinates_from_arcsec_coordinates_no_origin(m, a) ==
    <<TruncDiv(m.pixel_scales[1] * m.shape[1] - a[1], 2 * m.pixel_scales[1]),
      TruncDiv(a[2] + m.pixel_scales[2] * m.shape[2], 2 * m.pixel_scales[2])>>

\* AbstractMask.pixel_coordinates_from_arcsec_coordinates, for a coordinate
\* given in halves (a[1] / 2, a[2] / 2):
\*   int((-y + oy) / sy + (H - 1) / 2 + 0.5) = int((2 oy - 2 y + sy H) / (2 sy))
pixel_coordinates_from_arcsec_coordinates(m, a) ==
    <<TruncDiv(2 * m.origin[1] - a[1] + m.pixel_scales[1] * m.shape[1],
               2 * m.pixel_scales[1]),
      TruncDiv(a[2] - 2 * m.origin[2] + m.pixel_scales[2] * m.shape[2],
               2 * m.pixel_scales[2])>>

\* (faulty variant: the first scale is returned without comparing the two)
pixel_scale_first(m) == [err |-> "none", value |-> m.pixel_scales[1]]

\* ScaledMask.pixel_scale
pixel_scale(m) ==
    IF m.pixel_scales[1] = m.pixel_scales[2]
    THEN [err |-> "none", value |-> m.pixel_scales[1]]
    ELSE [err |-> "ScaledException", value |-> NoValue]

\* (faulty variant: the origin is not passed on, the grid is centred on (0, 0))
unmasked_grid_no_origin(m) ==
    grid_from_grid_1d(m,
        grid_1d_from_shape_pixel_scales_sub_size_and_origin(
            m.shape, m.pixel_scales, 1, <<0, 0>>))

\* ScaledMask.unmasked_grid
unmasked_grid(m) ==
    grid_from_grid_1d(m,
        grid_1d_from_shape_pixel_scales_sub_size_and_origin(
            m.shape, m.pixel_scales, 1, m.origin))

\* (faulty variant: the mask's own sub_size is passed instead of 1)
masked_grid_sub(m) ==
    grid_from_grid_1d(m,
        grid_1d_from_mask_pixel_scales_sub_size_and_origin(
            m, m.pixel_scales, m.sub_size, m.origin))

\* ScaledMask.masked_grid
masked_grid(m) ==
    grid_from_grid_1d(m,
        grid_1d_from_mask_pixel_scales_sub_size_and_origin(
            m, m.pixel_scales, 1, m.origin))

\* ScaledMask.masked_sub_grid
masked_sub_grid(m) ==
    grid_from_grid_1d(m,
        grid_1d_from_mask_pixel_scales_sub_size_and_origin(
            m, m.pixel_scales, m.sub_size, m.origin))

\* mask_util.sub_mask_2d_index_for_sub_mask_1d_index_from_mask_and_sub_size:
\* the coordinate, in the grid expanded sub_size times, of every unmasked
\* sub-pixel; pixels in scan order, the sub-pixels of a pixel in scan order
\* within it (the numbering of grid_1d_from_mask_pixel_scales_sub_size_and_origin)
sub_mask_2d_index_for_sub_mask_1d_index_from_mask_and_sub_size(m, sub_size) ==
    LET table == mask_2d_index_for_mask_1d_index_from_mask(m)
        n == sub_size * sub_size
    IN  [k \in 1 .. Len(table) * n |->
            <<table[(k - 1) \div n + 1][1] * sub_size + (((k - 1) % n) \div sub_size),
              table[(k - 1) \div n + 1][2] * sub_size + (((k - 1) % n) % sub_size)>>]

\* AbstractSubMask._sub_mask_2d_index_for_sub_mask_1d_index
sub_mask_2d_index_for_sub_mask_1d_index(m) ==
    sub_mask_2d_index_for_sub_mask_1d_index_from_mask_and_sub_size(m, m.sub_size)

\* (faulty variant: the expanded grid is filled from the pixel table)
sub_mask_from_pixel_table(m) ==
    [shape |-> <<m.shape[1] * m.sub_size, m.shape[2] * m.sub_size>>,
     data |-> MaskFrom2dIndexes(<<m.shape[1] * m.sub_size, m.shape[2] * m.sub_size>>,
                                mask_2d_index_for_mask_1d_index(m))]

\* AbstractSubMask.sub_mask: the expanded grid, unmasked at the listed
\* sub-pixel coordinates
sub_mask(m) ==
    [shape |-> <<m.shape[1] * m.sub_size, m.shape[2] * m.sub_size>>,
     data |-> MaskFrom2dIndexes(<<m.shape[1] * m.sub_size, m.shape[2] * m.sub_size>>,
                                sub_mask_2d_index_for_sub_mask_1d_index(m))]

\* mask_util.mask_1d_index_for_sub_mask_1d_index_from_mask: for every unmasked
\* sub-pixel, in scan order, the flat index of the pixel it lies in
mask_1d_index_for_sub_mask_1d_index_from_mask(m, sub_size) ==
    LET n == sub_size * sub_size
    IN  [k \in 1 .. Len(mask_2d_index_for_mask_1d_index_from_mask(m)) * n |->
            (k - 1) \div n]

\* (faulty variant: the table is built with sub_size 1)
mask_1d_index_for_sub_mask_1d_index_sub_size_1(m) ==
    [err |-> "none",
     value |-> mask_1d_index_for_sub_mask_1d_index_from_mask(m, 1)]

\* AbstractSubMask._mask_1d_index_for_sub_mask_1d_index
mask_1d_index_for_sub_mask_1d_index(m) ==
    [err |-> "none",
     value |-> mask_1d_index_for_sub_mask_1d_index_from_mask(m, m.sub_size)]

\* np.invert(mask) when invert is set
Inverted(grid, invert) == IF invert THEN [p \in DOMAIN grid |-> ~grid[p]] ELSE grid

\* ScaledMask.unmasked_from_shape_pixel_scales_and_sub_size
unmasked_from_shape_pixel_scales_and_sub_size(shape, pixel_scales, sub_size, origin, invert) ==
    ScaledMask_new(Inverted(np_full(shape, FALSE), invert),
                   shape, pixel_scales, sub_size, origin)

\* ScaledMask.circular
circular(shape, pixel_scales, radius_x2, sub_size, origin, centre_x2, invert) ==
    ScaledMask_new(
        Inverted(mask_circular_from_shape_pixel_scales_and_radius(
                     shape, pixel_scales, radius_x2, centre_x2), invert),
        shape, pixel_scales, sub_size, origin)

\* ScaledMask.circular_annular
circular_annular(shape, pixel_scales, sub_size, inner_x2, outer_x2, origin, centre_x2, invert) ==
    ScaledMask_new(
        Inverted(mask_circular_annular_from_shape_pixel_scales_and_radii(
                     shape, pixel_scales, inner_x2, outer_x2, centre_x2), invert),
        shape, pixel_scales, sub_size, origin)

\* ScaledMask.circular_anti_annular
circular_anti_annular(shape, pixel_scales, sub_size, inner_x2, outer_x2, outer_2_x2, origin, centre_x2, invert) ==
    ScaledMask_new(
        Inverted(mask_circular_anti_annular_from_shape_pixel_scales_and_radii(
                     shape, pixel_scales, inner_x2, outer_x2, outer_2_x2, centre_x2), invert),
        shape, pixel_scales, sub_size, origin)

\* ScaledMask.elliptical
elliptical(shape, pixel_scales, major_x2, axis_ratio, phi, sub_size, origin, centre_x2, invert) ==
    ScaledMask_new(
        Inverted(mask_elliptical_from_shape_pixel_scales_and_radius(
                     shape, pixel_scales, major_x2, axis_ratio, phi, centre_x2), invert),
        shape, pixel_scales, sub_size, origin)

\* ScaledMask.elliptical_annular
elliptical_annular(shape, pixel_scales, sub_size, inner, outer, origin, centre_x2, invert) ==
    ScaledMask_new(
        Inverted(mask_elliptical_annular_from_shape_pixel_scales_and_radius(
                     shape, pixel_scales, inner, outer, centre_x2), invert),
        shape, pixel_scales, sub_size, origin)

\* ScaledMask.from_fits: the 2D array read from the file becomes the mask
from_fits(array_2d, shape, pixel_scales, sub_size, origin) ==
    ScaledMask_new(array_2d, shape, pixel_scales, sub_size, origin)

\* AbstractSubMask.new_mask_with_new_sub_size
new_mask_with_new_sub_size(m, sub_size) ==
    ScaledMask_new(m.data, m.shape, m.pixel_scales, sub_size, m.origin)

\* (faulty variant: the binned mask keeps the parent's pixel scales)
binned_up_mask_from_bin_up_factor_unscaled(m, bin_up_factor) ==
    IF binning_error(bin_up_factor) # "none"
    THEN [err |-> binning_error(bin_up_factor), value |-> NoValue]
    ELSE ScaledMask_new(binned_up_mask_from_mask_2d_and_bin_up_factor(m, bin_up_factor),
                        binned_shape(m.shape, bin_up_factor),
                        m.pixel_scales, m.sub_size, m.origin)

\* ScaledMask.binned_up_mask_from_bin_up_factor
binned_up_mask_from_bin_up_factor(m, bin_up_factor) ==
    IF binning_error(bin_up_factor) # "none"
    THEN [err |-> binning_error(bin_up_factor), value |-> NoValue]
    ELSE ScaledMask_new(binned_up_mask_from_mask_2d_and_bin_up_factor(m, bin_up_factor),
                        binned_shape(m.shape, bin_up_factor),
                        <<m.pixel_scales[1] * bin_up_factor, m.pixel_scales[2] * bin_up_factor>>,
                        m.sub_size, m.origin)

\* ScaledMask.binned_up_mask_sub_size_1_from_mask
binned_up_mask_sub_size_1_from_mask(m, bin_up_factor) ==
    IF binning_error(bin_up_factor) # "none"
    THEN [err |-> binning_error(bin_up_factor), value |-> NoValue]
    ELSE ScaledMask_new(binned_up_mask_from_mask_2d_and_bin_up_factor(m, bin_up_factor),
                        binned_shape(m.shape, bin_up_factor),
                        <<m.pixel_scales[1] * bin_up_factor, m.pixel_scales[2] * bin_up_factor>>,
                        1, m.origin)

\* np.amin / np.amax of a non-empty set of integers
SetMin(S) == CHOOSE x \in S : \A y \in S : x <= y

SetMax(S) == CHOOSE x \in S : \A y \in S : x >= y

\* (faulty variant: the whole difference is added on the far side only)
zoom_region_one_side(m) ==
    IF Unmasked(m) = {}
    THEN [err |-> "ValueError", value |-> NoValue]
    ELSE LET ys == {p[1] : p \in Unmasked(m)}
             xs == {p[2] : p \in Unmasked(m)}
             ylength == SetMax(ys) - SetMin(ys)
             xlength == SetMax(xs) - SetMin(xs)
         IN  [err |-> "none",
              value |->
                IF ylength > xlength
                THEN <<SetMin(ys), SetMax(ys) + 1,
                       SetMin(xs), SetMax(xs) + (ylength - xlength) + 1>>
                ELSE <<SetMin(ys), SetMax(ys) + (xlength - ylength) + 1,
                       SetMin(xs), SetMax(xs) + 1>>]

\* ScaledMask._zoom_region: the bounding box of the unmasked pixels, the
\* shorter side grown by int(length_difference / 2.0) at both ends; np.amin of
\* an empty array raises ValueError
\* the zoom region cut back to the grid
zoom_region_clipped(m) ==
    IF Unmasked(m) = {}
    THEN [err |-> "ValueError", value |-> NoValue]
    ELSE LET ys == {p[1] : p \in Unmasked(m)}
             xs == {p[2] : p \in Unmasked(m)}
             ylength == SetMax(ys) - SetMin(ys)
             xlength == SetMax(xs) - SetMin(xs)
             ypad == IF xlength > ylength THEN TruncDiv(xlength - ylength, 2) ELSE 0
             xpad == IF ylength > xlength THEN TruncDiv(ylength - xlength, 2) ELSE 0
             Clip(v, hi) == IF v < 0 THEN 0 ELSE IF v > hi THEN hi ELSE v
         IN  [err |-> "none",
              value |-> <<Clip(SetMin(ys) - ypad, m.shape[1]),
                          Clip(SetMax(ys) + ypad + 1, m.shape[1]),
                          Clip(SetMin(xs) - xpad, m.shape[2]),
                          Clip(SetMax(xs) + xpad + 1, m.shape[2])>>]

zoom_region(m) ==
    IF Unmasked(m) = {}
    THEN [err |-> "ValueError", value |-> NoValue]
    ELSE LET ys == {p[1] : p \in Unmasked(m)}
             xs == {p[2] : p \in Unmasked(m)}
             zy0 == SetMin(ys)
             zy1 == SetMax(ys)
             zx0 == SetMin(xs)
             zx1 == SetMax(xs)
             ylength == zy1 - zy0
             xlength == zx1 - zx0
         IN  [err |-> "none",
              value |->
                IF ylength > xlength
                THEN <<zy0, zy1 + 1,
                       zx0 - TruncDiv(ylength - xlength, 2),
                       zx1 + TruncDiv(ylength - xlength, 2) + 1>>
                ELSE IF xlength > ylength
                     THEN <<zy0 - TruncDiv(xlength - ylength, 2),
                            zy1 + TruncDiv(xlength - ylength, 2) + 1,
                            zx0, zx1 + 1>>
                     ELSE <<zy0, zy1 + 1, zx0, zx1 + 1>>]

\* An optional argument: NoValue for None, [v |-> x] for the value x.
Some(x) == [v |-> x]

\* (faulty variant: the rows and the columns of new_shape change places)
resized_mask_from_new_shape_swapped(m, new_shape, new_centre_pixels, new_centre_arcsec) ==
    IF new_centre_pixels # NoValue /\ new_centre_arcsec # NoValue
    THEN [err |-> "MaskException", value |-> NoValue]
    ELSE LET new_centre ==
                 IF new_centre_pixels = NoValue /\ new_centre_arcsec = NoValue
                 THEN <<-1, -1>>
                 ELSE IF new_centre_arcsec = NoValue
                      THEN new_centre_pixels.v
                      ELSE pixel_coordinates_from_arcsec_coordinates(m, new_centre_arcsec.v)
             swapped == <<new_shape[2], new_shape[1]>>
         IN  ScaledMask_new(
                 resized_array_2d_from_array_2d_and_resized_shape(m, swapped, new_centre),
                 swapped, m.pixel_scales, m.sub_size, new_centre)

\* (faulty variant: when both centres are given the pixel centre is used)
resized_mask_from_new_shape_pixels_first(m, new_shape, new_centre_pixels, new_centre_arcsec) ==
    LET new_centre ==
            IF new_centre_pixels # NoValue
            THEN new_centre_pixels.v
            ELSE IF new_centre_arcsec = NoValue
                 THEN <<-1, -1>>
                 ELSE pixel_coordinates_from_arcsec_coordinates(m, new_centre_arcsec.v)
    IN  ScaledMask_new(
            resized_array_2d_from_array_2d_and_resized_shape(m, new_shape, new_centre),
            new_shape, m.pixel_scales, m.sub_size, new_centre)

\* ScaledMask.resized_mask_from_new_shape
resized_mask_from_new_shape(m, new_shape, new_centre_pixels, new_centre_arcsec) ==
    IF new_centre_pixels # NoValue /\ new_centre_arcsec # NoValue
    THEN [err |-> "MaskException", value |-> NoValue]
    ELSE LET new_centre ==
                 IF new_centre_pixels = NoValue /\ new_centre_arcsec = NoValue
                 THEN <<-1, -1>>
                 ELSE IF new_centre_arcsec = NoValue
                      THEN new_centre_pixels.v
                      ELSE pixel_coordinates_from_arcsec_coordinates(m, new_centre_arcsec.v)
         IN  ScaledMask_new(
                 resized_array_2d_from_array_2d_and_resized_shape(m, new_shape, new_centre),
                 new_shape, m.pixel_scales, m.sub_size, new_centre)

----------------------------------------------------------------------------
(* The geometry of one mask: a mask is drawn (any boolean grid of a bounded *)
(* shape, or a circular or annular mask of a larger shape; unit pixel       *)
(* scales, origin (0, 0)) and one derivation is applied to it.  The         *)
(* derivations are pure functions of the mask and leave it as it is, so     *)
(* each is taken once from the mask as drawn.                               *)

MaxKernelHalf == 1
MaxBuilderDim == 5
MaxRadius_x2 == 5

\* the odd kernel footprints
OddKernelShapes ==
    {<<2 * a + 1, 2 * b + 1>> : a \in 0 .. MaxKernelHalf, b \in 0 .. MaxKernelHalf}

BuilderShapes == (1 .. MaxBuilderDim) \X (1 .. MaxBuilderDim)

\* a mask loaded from any boolean array of a bounded shape
IsLoadedMask(m) ==
    \E shape \in Shapes :
        \E g \in Grids(shape) : m = from_fits(g, shape, <<1, 1>>, 1, <<0, 0>>).value

\* a circular annular mask centred on the grid
IsAnnularMask(m) ==
    \E shape \in BuilderShapes :
        \E i \in 0 .. MaxRadius_x2 :
            \E o \in 0 .. MaxRadius_x2 :
                m = circular_annular(shape, <<1, 1>>, 1, i, o, <<0, 0>>, <<0, 0>>, FALSE).value

InitGeom ==
    /\ heap = NoValue
    /\ memo = NoValue
    /\ op = "init"
    /\ call = NoValue
    /\ err = "none"
    /\ region = NoValue
    /\ array = NoValue
    /\ IsLoadedMask(mask) \/ IsAnnularMask(mask)
    /\ out = NoValue

GeomEdgeMask ==
    /\ op = "init"
    /\ op' = "edge_mask"
    /\ call' = NoValue
    /\ err' = edge_mask(mask).err
    /\ out' = edge_mask(mask).value
    /\ UNCHANGED <<heap, memo, region, array, mask>>

GeomBorderMask ==
    /\ op = "init"
    /\ op' = "border_mask"
    /\ call' = NoValue
    /\ err' = border_mask(mask).err
    /\ out' = border_mask(mask).value
    /\ UNCHANGED <<heap, memo, region, array, mask>>

GeomBlurringMask ==
    /\ op = "init"
    /\ \E kernel_shape \in OddKernelShapes :
         LET r == blurring_mask_from_kernel_shape(mask, kernel_shape)
         IN  /\ op' = "blurring_mask_from_kernel_shape"
             /\ call' = [kernel_shape |-> kernel_shape]
             /\ err' = r.err
             /\ out' = r.value
             /\ UNCHANGED <<heap, memo, region, array, mask>>

GeomZoomRegion ==
    /\ op = "init"
    /\ op' = "zoom_region"
    /\ call' = NoValue
    /\ err' = zoom_region(mask).err
    /\ out' = IF zoom_region(mask).err = "none"
              THEN [value |-> zoom_region(mask).value]
              ELSE NoValue
    /\ UNCHANGED <<heap, memo, region, array, mask>>

NextGeom == GeomEdgeMask \/ GeomBorderMask \/ GeomBlurringMask \/ GeomZoomRegion

SpecGeom == InitGeom /\ [][NextGeom]_vars

----------------------------------------------------------------------------
(* Claims about the edge, border and blurring masks.                        *)

Abs(n) == IF n < 0 THEN -n ELSE n

\* C5: for an odd kernel footprint (kh, kw) the blurring mask has the shape of
\* the mask, and its unmasked pixels are exactly the pixels masked in the mask
\* that lie within kh \div 2 rows and kw \div 2 columns of an unmasked pixel of
\* the mask; no pixel unmasked in the mask is unmasked in the blurring mask.
C5_BlurringMask ==
    (op = "blurring_mask_from_kernel_shape" /\ err = "none") =>
        LET hy == call.kernel_shape[1] \div 2
            hx == call.kernel_shape[2] \div 2
        IN  /\ out.shape = mask.shape
            /\ DOMAIN out.data = Pixels(mask.shape)
            /\ \A p \in Pixels(mask.shape) :
                 (~out.data[p]) <=>
                    /\ mask.data[p]
                    /\ \E q \in Pixels(mask.shape) :
                          /\ ~mask.data[q]
                          /\ Abs(p[1] - q[1]) <= hy
                          /\ Abs(p[2] - q[2]) <= hx
            /\ Unmasked(out) \cap Unmasked(mask) = {}

\* a (3, 3) kernel over a 3 x 3 mask whose only unmasked pixel is the centre
\* unmasks the 8 neighbours of the centre
C5_Witness ==
    /\ op = "blurring_mask_from_kernel_shape"
    /\ err = "none"
    /\ call.kernel_shape = <<3, 3>>
    /\ mask.shape = <<3, 3>>
    /\ Unmasked(mask) = {<<1, 1>>}
    /\ Unmasked(out) = Pixels(<<3, 3>>) \ {<<1, 1>>}

\* the unmasked pixels with a 4-connected neighbour that is masked or off the grid
EdgeSet(m) ==
    {p \in Pixels(m.shape) :
        /\ ~m.data[p]
        /\ \/ p[1] = 0 \/ p[1] = m.shape[1] - 1
           \/ p[2] = 0 \/ p[2] = m.shape[2] - 1
           \/ m.data[<<p[1] - 1, p[2]>>] \/ m.data[<<p[1] + 1, p[2]>>]
           \/ m.data[<<p[1], p[2] - 1>>] \/ m.data[<<p[1], p[2] + 1>>]}

\* the outer ring of a rectangle
OuterRing(shape) ==
    {p \in Pixels(shape) :
        p[1] = 0 \/ p[1] = shape[1] - 1 \/ p[2] = 0 \/ p[2] = shape[2] - 1}

SeqRange(q) == {q[i] : i \in 1 .. Len(q)}

Holes(m) == {p \in Pixels(m.shape) : m.data[p]} \ Exterior(m)

\* the edge pixels all of whose masked neighbours belong to interior holes
\* (and none of whose neighbours is off the grid)
InnerEdgeSet(m) ==
    {p \in EdgeSet(m) :
        \A q \in Neighbours4(p) :
            q \in Pixels(m.shape) /\ (m.data[q] => q \in Holes(m))}

BoundingBox(m) ==
    <<SetMin({p[1] : p \in Unmasked(m)}), SetMax({p[1] : p \in Unmasked(m)}),
      SetMin({p[2] : p \in Unmasked(m)}), SetMax({p[2] : p \in Unmasked(m)})>>

\* C15: for a mask with at least one unmasked pixel the zoom region
\* [y0, y1_exclusive, x0, x1_exclusive] is square.
C15_ZoomSquare ==
    (op = "zoom_region" /\ Unmasked(mask) # {}) =>
        /\ err = "none"
        /\ out.value[2] - out.value[1] = out.value[4] - out.value[3]

\* C16: for a mask with at least one unmasked pixel the zoom region encloses
\* every unmasked pixel; along the longer side of the bounding box it is the
\* bounding box, and along the shorter side the same number of pixels is
\* added at both ends.
C16_ZoomEncloses ==
    (op = "zoom_region" /\ Unmasked(mask) # {}) =>
        LET z == out.value
            b == BoundingBox(mask)
        IN  /\ err = "none"
            /\ \A p \in Unmasked(mask) :
                  /\ z[1] <= p[1] /\ p[1] < z[2]
                  /\ z[3] <= p[2] /\ p[2] < z[4]
            /\ (b[2] - b[1] >= b[4] - b[3]) => (z[1] = b[1] /\ z[2] = b[2] + 1)
            /\ (b[4] - b[3] >= b[2] - b[1]) => (z[3] = b[3] /\ z[4] = b[4] + 1)
            /\ b[1] - z[1] = z[2] - (b[2] + 1)
            /\ b[3] - z[3] = z[4] - (b[4] + 1)

\* a column of three unmasked pixels: one column is added on each side
C16_Witness ==
    /\ op = "zoom_region"
    /\ mask.shape = <<3, 3>>
    /\ Unmasked(mask) = {<<0, 1>>, <<1, 1>>, <<2, 1>>}
    /\ out.value = <<0, 3, 0, 3>>

----------------------------------------------------------------------------
(* The coordinate grids of one mask: a ScaledMask is drawn (any boolean     *)
(* grid of a bounded shape, pixel scales, sub_size and origin from small    *)
(* sets) and one accessor is read from it.                                  *)

MaxScale == 2
MaxSub == 2
MaxOrigin == 1

MaxBinFactor == 2

PixelScales == (1 .. MaxScale) \X (1 .. MaxScale)
BinFactors == 1 .. MaxBinFactor
SubSizes == 1 .. MaxSub
Origins == {<<0, 0>>, <<MaxOrigin, -MaxOrigin>>}

InitGrid ==
    /\ heap = NoValue
    /\ memo = NoValue
    /\ op = "init"
    /\ call = NoValue
    /\ err = "none"
    /\ region = NoValue
    /\ array = NoValue
    /\ \E shape \in Shapes :
         \E g \in Grids(shape) :
           \E pixel_scales \in PixelScales :
             \E sub_size \in SubSizes :
               \E origin \in Origins :
                 mask = from_fits(g, shape, pixel_scales, sub_size, origin).value
    /\ out = NoValue

GridPixelsInMask ==
    /\ op = "init"
    /\ op' = "pixels_in_mask"
    /\ out' = [value |-> pixels_in_mask(mask)]
    /\ UNCHANGED <<heap, memo, call, err, region, array, mask>>

GridUnmaskedGrid ==
    /\ op = "init"
    /\ op' = "unmasked_grid"
    /\ out' = unmasked_grid(mask)
    /\ UNCHANGED <<heap, memo, call, err, region, array, mask>>

GridMaskedGrid ==
    /\ op = "init"
    /\ op' = "masked_grid"
    /\ out' = masked_grid(mask)
    /\ UNCHANGED <<heap, memo, call, err, region, array, mask>>

GridMaskedSubGrid ==
    /\ op = "init"
    /\ op' = "masked_sub_grid"
    /\ out' = masked_sub_grid(mask)
    /\ UNCHANGED <<heap, memo, call, err, region, array, mask>>

GridPixelScale ==
    /\ op = "init"
    /\ op' = "pixel_scale"
    /\ err' = pixel_scale(mask).err
    /\ out' = IF pixel_scale(mask).err = "none"
              THEN [value |-> pixel_scale(mask).value]
              ELSE NoValue
    /\ UNCHANGED <<heap, memo, call, region, array, mask>>

NextGrid ==
    \/ GridPixelsInMask \/ GridUnmaskedGrid \/ GridMaskedGrid \/ GridMaskedSubGrid
    \/ GridPixelScale

SpecGrid == InitGrid /\ [][NextGrid]_vars

(***************************************************************************)
(* Binning up a mask with any scales, sub_size and origin.                 *)
(***************************************************************************)

\* mask.binned_up_mask_from_bin_up_factor(bin_up_factor)
GridBinnedUp ==
    /\ op = "init"
    /\ \E bin_up_factor \in BinFactors :
         LET r == binned_up_mask_from_bin_up_factor(mask, bin_up_factor)
         IN  /\ op' = "binned_up_mask_from_bin_up_factor"
             /\ call' = [bin_up_factor |-> bin_up_factor]
             /\ err' = r.err
             /\ out' = r.value
    /\ UNCHANGED <<heap, memo, region, array, mask>>

\* mask.binned_up_mask_sub_size_1_from_mask(bin_up_factor)
GridBinnedUpSubSize1 ==
    /\ op = "init"
    /\ \E bin_up_factor \in BinFactors :
         LET r == binned_up_mask_sub_size_1_from_mask(mask, bin_up_factor)
         IN  /\ op' = "binned_up_mask_sub_size_1_from_mask"
             /\ call' = [bin_up_factor |-> bin_up_factor]
             /\ err' = r.err
             /\ out' = r.value
    /\ UNCHANGED <<heap, memo, region, array, mask>>

NextBin == GridBinnedUp \/ GridBinnedUpSubSize1

SpecBin == InitGrid /\ [][NextBin]_vars

\* C19: the mask binned up by f has pixel scales (sy * f, sx * f) and the
\* parent's sub_size and origin; the sub_size-1 variant has the same boolean
\* grid, pixel scales and origin as that mask, with sub_size 1.
C19_BinnedUpMetadata ==
    /\ op = "binned_up_mask_from_bin_up_factor" =>
          /\ err = "none"
          /\ out.pixel_scales = <<mask.pixel_scales[1] * call.bin_up_factor,
                                  mask.pixel_scales[2] * call.bin_up_factor>>
          /\ out.sub_size = mask.sub_size
          /\ out.origin = mask.origin
    /\ op = "binned_up_mask_sub_size_1_from_mask" =>
          LET b == binned_up_mask_from_bin_up_factor(mask, call.bin_up_factor).value
          IN  /\ err = "none"
              /\ out.shape = b.shape
              /\ out.data = b.data
              /\ out.pixel_scales = b.pixel_scales
              /\ out.origin = b.origin
              /\ out.sub_size = 1

\* scales (1, 1) binned by 2 give (2, 2); sub_size 2 and a non-zero origin
\* are the parent's
C19_Witness ==
    /\ op = "binned_up_mask_from_bin_up_factor"
    /\ call.bin_up_factor = 2
    /\ mask.pixel_scales = <<1, 1>>
    /\ mask.sub_size = 2
    /\ mask.origin = <<MaxOrigin, -MaxOrigin>>
    /\ out.pixel_scales = <<2, 2>>
    /\ out.sub_size = 2
    /\ out.origin = mask.origin

----------------------------------------------------------------------------
(* Claims about the coordinate grids.                                       *)

\* twice the physical coordinate the claim gives to pixel (r, c):
\*   y = oy - sy * (r - (H - 1) / 2), x = ox + sx * (c - (W - 1) / 2)
PhysicalCoordinate_x2(m, p) ==
    <<2 * m.origin[1] - m.pixel_scales[1] * (2 * p[1] - (m.shape[1] - 1)),
      2 * m.origin[2] + m.pixel_scales[2] * (2 * p[2] - (m.shape[2] - 1))>>

\* the position (from 1) of pixel p in the row-major scan of the whole grid
ScanPosition(m, p) == p[1] * m.shape[2] + p[2] + 1

\* the position (from 1) of the unmasked pixel p among the unmasked pixels
UnmaskedRank(m, p) ==
    Cardinality({q \in Unmasked(m) : ScanPosition(m, q) <= ScanPosition(m, p)})

\* C8: the coordinate grid lists the pixels in row-major order, pixel (r, c)
\* at y = oy - sy (r - (H-1)/2), x = ox + sx (c - (W-1)/2), so y strictly
\* decreases down the rows and x strictly increases along the columns;
\* masked_grid is that sequence restricted to the unmasked pixels, in order.
C8_CoordinateGrid ==
    /\ op = "unmasked_grid" =>
          /\ out.den = 2
          /\ Len(out.pts) = mask.shape[1] * mask.shape[2]
          /\ \A p \in Pixels(mask.shape) :
                out.pts[ScanPosition(mask, p)] = PhysicalCoordinate_x2(mask, p)
          /\ \A p \in Pixels(mask.shape) :
               \A q \in Pixels(mask.shape) :
                  /\ (p[1] < q[1]) =>
                        out.pts[ScanPosition(mask, p)][1] > out.pts[ScanPosition(mask, q)][1]
                  /\ (p[2] < q[2]) =>
                        out.pts[ScanPosition(mask, p)][2] < out.pts[ScanPosition(mask, q)][2]
    /\ op = "masked_grid" =>
          /\ out.den = 2
          /\ Len(out.pts) = Cardinality(Unmasked(mask))
          /\ \A p \in Unmasked(mask) :
                out.pts[UnmaskedRank(mask, p)] = unmasked_grid(mask).pts[ScanPosition(mask, p)]

\* the 3 x 3 all-unmasked mask with scales (1, 1) and origin (0, 0):
\* [(1,-1), (1,0), (1,1), (0,-1), (0,0), (0,1), (-1,-1), (-1,0), (-1,1)]
C8_Witness ==
    /\ op = "masked_grid"
    /\ mask.shape = <<3, 3>>
    /\ Unmasked(mask) = Pixels(<<3, 3>>)
    /\ mask.pixel_scales = <<1, 1>>
    /\ mask.origin = <<0, 0>>
    /\ out.den = 2
    /\ out.pts = << <<2, -2>>, <<2, 0>>, <<2, 2>>,
                    <<0, -2>>, <<0, 0>>, <<0, 2>>,
                    <<-2, -2>>, <<-2, 0>>, <<-2, 2>> >>

\* C9: pixels_in_mask is the number of False entries (rows * columns for an
\* all-unmasked mask, 0 for an all-masked one); masked_grid has pixels_in_mask
\* entries and masked_sub_grid has pixels_in_mask * sub_size^2 entries.
C9_GridLengths ==
    /\ op = "pixels_in_mask" =>
          /\ out.value = Cardinality({p \in Pixels(mask.shape) : mask.data[p] = FALSE})
          /\ (\A p \in Pixels(mask.shape) : ~mask.data[p]) =>
                out.value = mask.shape[1] * mask.shape[2]
          /\ (\A p \in Pixels(mask.shape) : mask.data[p]) => out.value = 0
    /\ op = "masked_grid" => Len(out.pts) = pixels_in_mask(mask)
    /\ op = "masked_sub_grid" =>
          Len(out.pts) = pixels_in_mask(mask) * mask.sub_size * mask.sub_size

\* a partly masked mask with sub_size 2: 4 coordinates per unmasked pixel
C9_Witness ==
    /\ op = "masked_sub_grid"
    /\ mask.sub_size = 2
    /\ mask.shape = <<3, 3>>
    /\ pixels_in_mask(mask) = 5
    /\ Len(out.pts) = 20

\* C13 as stated: pixel_scale returns pixel_scales[0] exactly when the two
\* scales are equal, and otherwise returns nothing and raises MaskException.
C13_Original ==
    op = "pixel_scale" =>
        IF mask.pixel_scales[1] = mask.pixel_scales[2]
        THEN err = "none" /\ out = [value |-> mask.pixel_scales[1]]
        ELSE err = "MaskException" /\ out = NoValue

\* C13: pixel_scale returns pixel_scales[0] exactly when the two scales are
\* equal; when they differ it returns nothing and raises ScaledException.
C13_PixelScale ==
    op = "pixel_scale" =>
        IF mask.pixel_scales[1] = mask.pixel_scales[2]
        THEN err = "none" /\ out = [value |-> mask.pixel_scales[1]]
        ELSE err = "ScaledException" /\ out = NoValue

\* scales (1, 2)
C13_Witness ==
    /\ op = "pixel_scale"
    /\ mask.pixel_scales = <<1, 2>>
    /\ err = "ScaledException"
    /\ out = NoValue

----------------------------------------------------------------------------
(* Arc-second coordinates to pixels: a ScaledMask is drawn (an all-unmasked *)
(* grid of a bounded shape, pixel scales and origin from small sets) and an *)
(* arc-second coordinate, inside or outside the grid, is converted.         *)

MaxArcsec_x2 == 6

\* arc-second coordinates, in halves
ArcsecCoordinates == (-MaxArcsec_x2 .. MaxArcsec_x2) \X (-MaxArcsec_x2 .. MaxArcsec_x2)

InitCoord ==
    /\ heap = NoValue
    /\ memo = NoValue
    /\ op = "init"
    /\ call = NoValue
    /\ err = "none"
    /\ region = NoValue
    /\ array = NoValue
    /\ \E shape \in Shapes :
         \E pixel_scales \in PixelScales :
           \E origin \in Origins :
             mask = unmasked_from_shape_pixel_scales_and_sub_size(
                        shape, pixel_scales, 1, origin, FALSE).value
    /\ out = NoValue

CoordToPixel ==
    /\ op = "init"
    /\ \E a \in ArcsecCoordinates :
         /\ op' = "pixel_coordinates_from_arcsec_coordinates"
         /\ call' = [arcsec_coordinates_x2 |-> a]
         /\ out' = [value |-> pixel_coordinates_from_arcsec_coordinates(mask, a)]
         /\ UNCHANGED <<heap, memo, err, region, array, mask>>

\* the coordinate that unmasked_grid holds for a pixel, converted back
CoordRoundTrip ==
    /\ op = "init"
    /\ \E r \in 0 .. mask.shape[1] - 1 :
         \E c \in 0 .. mask.shape[2] - 1 :
           LET grid == unmasked_grid(mask)
               a == grid.pts[r * mask.shape[2] + c + 1]
           IN  /\ op' = "round_trip"
               /\ call' = [pixel |-> <<r, c>>, arcsec_coordinates_x2 |-> a]
               /\ out' = [value |-> pixel_coordinates_from_arcsec_coordinates(mask, a)]
               /\ UNCHANGED <<heap, memo, err, region, array, mask>>

NextCoord == CoordToPixel \/ CoordRoundTrip

SpecCoord == InitCoord /\ [][NextCoord]_vars

----------------------------------------------------------------------------
(* Claims about the conversion.                                             *)

\* floor(n / d) for d > 0
FloorDiv(n, d) == n \div d

\* C14: for every arc-second coordinate (y, x), also above or left of the
\* grid, the pixel is row = floor((oy - y) / sy + (H - 1) / 2 + 0.5),
\* column = floor((x - ox) / sx + (W - 1) / 2 + 0.5).
\* With y = a[1] / 2: (oy - y) / sy + (H - 1) / 2 + 1 / 2 = (2 oy - a[1] + sy H) / (2 sy).
C14_FloorToInt ==
    op = "pixel_coordinates_from_arcsec_coordinates" =>
        LET a == call.arcsec_coordinates_x2
        IN  out.value =
                <<FloorDiv(2 * mask.origin[1] - a[1] + mask.pixel_scales[1] * mask.shape[1],
                           2 * mask.pixel_scales[1]),
                  FloorDiv(a[2] - 2 * mask.origin[2] + mask.pixel_scales[2] * mask.shape[2],
                           2 * mask.pixel_scales[2])>>

----------------------------------------------------------------------------
(* Resizing one mask: a ScaledMask is drawn (any boolean grid of a bounded  *)
(* shape, unit pixel scales, origin (0, 0)) and resized once to a new shape *)
(* about the default centre, a pixel centre, an arc-second centre, or with  *)
(* both centres given.  The parent stays in `mask`, the result is in `out`. *)

MaxParentDim == 2
MaxNewDim == 4

ParentShapes == (1 .. MaxParentDim) \X (1 .. MaxParentDim)
NewShapes == (1 .. MaxNewDim) \X (1 .. MaxNewDim)
\* arc-second centres, in halves
ArcsecCentres == {<<0, 0>>, <<1, -1>>}

InitResize ==
    /\ heap = NoValue
    /\ memo = NoValue
    /\ op = "init"
    /\ call = NoValue
    /\ err = "none"
    /\ region = NoValue
    /\ array = NoValue
    /\ \E shape \in ParentShapes :
         \E g \in Grids(shape) :
            mask = from_fits(g, shape, <<1, 1>>, 1, <<0, 0>>).value
    /\ out = NoValue

DoResize(new_shape, new_centre_pixels, new_centre_arcsec) ==
    LET r == resized_mask_from_new_shape(mask, new_shape, new_centre_pixels, new_centre_arcsec)
    IN  /\ op' = "resized"
        /\ call' = [new_shape |-> new_shape,
                    new_centre_pixels |-> new_centre_pixels,
                    new_centre_arcsec |-> new_centre_arcsec]
        /\ err' = r.err
        /\ out' = r.value
        /\ UNCHANGED <<heap, memo, region, array, mask>>

ResizeDefaultCentre ==
    /\ op = "init"
    /\ \E new_shape \in NewShapes : DoResize(new_shape, NoValue, NoValue)

ResizePixelCentre ==
    /\ op = "init"
    /\ \E new_shape \in NewShapes :
         \E c \in Pixels(mask.shape) : DoResize(new_shape, Some(c), NoValue)

ResizeArcsecCentre ==
    /\ op = "init"
    /\ \E new_shape \in NewShapes :
         \E a \in ArcsecCentres : DoResize(new_shape, NoValue, Some(a))

ResizeBothCentres ==
    /\ op = "init"
    /\ \E new_shape \in NewShapes : DoResize(new_shape, Some(<<0, 0>>), Some(<<0, 0>>))

\* mask.resized_mask_from_new_shape(new_shape).resized_mask_from_new_shape(mask.shape):
\* the resized mask is resized again, to the shape of the first mask, about
\* the default centre
ResizeBack ==
    /\ op = "resized"
    /\ err = "none"
    /\ LET r == resized_mask_from_new_shape(out, mask.shape, NoValue, NoValue)
       IN  /\ op' = "resized_back"
           /\ err' = r.err
           /\ out' = r.value
           /\ UNCHANGED <<heap, memo, call, region, array, mask>>

NextResize ==
    \/ ResizeDefaultCentre \/ ResizePixelCentre \/ ResizeArcsecCentre \/ ResizeBothCentres
    \/ ResizeBack

SpecResize == InitResize /\ [][NextResize]_vars

----------------------------------------------------------------------------
(* Claims about resizing.                                                   *)

\* the result is the parent moved by `off` (result pixel p shows parent pixel
\* p + off) and masked wherever that falls outside the parent
IsShiftOf(result, parent, off) ==
    \A p \in Pixels(result.shape) :
        LET q == <<p[1] + off[1], p[2] + off[2]>>
        IN  result.data[p] = (IF q \in Pixels(parent.shape) THEN parent.data[q] ELSE TRUE)

\* rows (columns) added before and after the parent differ by at most one
\* (negative numbers are rows cropped)
SymmetricOffset(new_shape, parent_shape, off) ==
    \A i \in 1 .. 2 :
        LET before == -off[i]
            after == new_shape[i] - parent_shape[i] - before
        IN  Abs(before - after) <= 1

\* C10: the resized mask has exactly the new shape; each of its pixels that
\* corresponds to a parent pixel after re-centring (the default centre keeps
\* the parent in the middle, a given centre pixel lands on the middle pixel
\* of the result) has the parent's value and every other pixel is masked.
C10_Resized ==
    (op = "resized" /\ err = "none") =>
        /\ out.shape = call.new_shape
        /\ DOMAIN out.data = Pixels(call.new_shape)
        /\ \E off \in (-MaxNewDim .. MaxParentDim) \X (-MaxNewDim .. MaxParentDim) :
              /\ IsShiftOf(out, mask, off)
              /\ (call.new_centre_pixels = NoValue /\ call.new_centre_arcsec = NoValue)
                    => SymmetricOffset(call.new_shape, mask.shape, off)
              /\ call.new_centre_pixels # NoValue =>
                    \A i \in 1 .. 2 :
                        call.new_centre_pixels.v[i] - off[i] = call.new_shape[i] \div 2

\* a 2 x 2 mask with one masked pixel padded to 4 x 4: the parent sits in the
\* middle and the 12 new pixels are masked
C10_Witness ==
    /\ op = "resized"
    /\ err = "none"
    /\ call.new_centre_pixels = NoValue
    /\ call.new_centre_arcsec = NoValue
    /\ mask.shape = <<2, 2>>
    /\ Unmasked(mask) = {<<0, 0>>, <<0, 1>>, <<1, 0>>}
    /\ out.shape = <<4, 4>>
    /\ Unmasked(out) = {<<1, 1>>, <<1, 2>>, <<2, 1>>}

\* the first resize used the default centre and grew the mask by an even
\* number (zero included) of rows and of columns
GrewSymmetrically ==
    /\ call.new_centre_pixels = NoValue
    /\ call.new_centre_arcsec = NoValue
    /\ \A i \in 1 .. 2 :
          /\ call.new_shape[i] >= mask.shape[i]
          /\ (call.new_shape[i] - mask.shape[i]) % 2 = 0

\* C11: a mask resized about the default centre to a shape that is larger (or
\* equal) by a symmetric amount in both dimensions, and then resized back to
\* its own shape about the default centre, has the shape and the unmasked set
\* it started with.
C11_ResizeRoundTrip ==
    (op = "resized_back" /\ GrewSymmetrically) =>
        /\ err = "none"
        /\ out.shape = mask.shape
        /\ Unmasked(out) = Unmasked(mask)

\* a 2 x 2 mask with one masked pixel, grown to 4 x 4 and brought back
C11_Witness ==
    /\ op = "resized_back"
    /\ GrewSymmetrically
    /\ mask.shape = <<2, 2>>
    /\ call.new_shape = <<4, 4>>
    /\ Unmasked(mask) = {<<0, 0>>, <<0, 1>>, <<1, 0>>}
    /\ Unmasked(out) = {<<0, 0>>, <<0, 1>>, <<1, 0>>}

\* the grid of shape new_shape whose middle pixel (new_shape // 2) shows pixel
\* c of the mask m, masked where it shows no pixel of m
ResizedAbout(m, new_shape, c) ==
    [p \in Pixels(new_shape) |->
        LET q == <<p[1] + c[1] - new_shape[1] \div 2, p[2] + c[2] - new_shape[2] \div 2>>
        IN  IF q \in Pixels(m.shape) THEN m.data[q] ELSE TRUE]

\* C12: resized_mask_from_new_shape takes at most one centre: with none it
\* uses the geometric centre of the mask, with new_centre_pixels that pixel,
\* with new_centre_arcsec the pixel pixel_coordinates_from_arcsec_coordinates
\* gives for it, and with both it raises MaskException and returns no mask.
C12_OneCentre ==
    op = "resized" =>
        LET px == call.new_centre_pixels
            as == call.new_centre_arcsec
        IN  /\ (px = NoValue /\ as = NoValue) =>
                  /\ err = "none"
                  /\ out.data = ResizedAbout(mask, call.new_shape,
                                    <<mask.shape[1] \div 2, mask.shape[2] \div 2>>)
            /\ (px # NoValue /\ as = NoValue) =>
                  /\ err = "none"
                  /\ out.data = ResizedAbout(mask, call.new_shape, px.v)
            /\ (px = NoValue /\ as # NoValue) =>
                  /\ err = "none"
                  /\ out.data = ResizedAbout(mask, call.new_shape,
                                    pixel_coordinates_from_arcsec_coordinates(mask, as.v))
            /\ (px # NoValue /\ as # NoValue) =>
                  /\ err = "MaskException"
                  /\ out = NoValue

\* both centres given
C12_Witness ==
    /\ op = "resized"
    /\ call.new_centre_pixels # NoValue
    /\ call.new_centre_arcsec # NoValue
    /\ err = "MaskException"
    /\ out = NoValue

----------------------------------------------------------------------------
(* The life of a ScaledMask.  At first there is no mask.  A mask is built   *)
(* by the constructor, by loading an array, or by one of the builders, with *)
(* pixel scales that may be zero or negative; a construction that raises    *)
(* leaves no mask behind and the exception ends the run.  Once a mask       *)
(* exists, a mask is derived from it; the derived mask is returned in `out` *)
(* and the mask it was derived from stays as it is.  The derivations read   *)
(* the mask only, so each is taken once from the mask as built.             *)

MaxLifeDim == 2
MaxKernel == 4
MaxLifeRadius_x2 == 3

LifeShapes == (1 .. MaxLifeDim) \X (1 .. MaxLifeDim)
ScaleValues == {-1, 0, 1, MaxScale}
ScaleInputs == ScaleValues \X ScaleValues
LifeSubSizes == {1, 2}
LifeRadii_x2 == 1 .. MaxLifeRadius_x2
KernelShapes == (1 .. MaxKernel) \X (1 .. MaxKernel)

ConstructOps ==
    {"ScaledMask", "from_fits", "unmasked", "circular", "circular_annular",
     "circular_anti_annular", "elliptical", "elliptical_annular"}

DerivedOps ==
    {"resized_mask_from_new_shape", "binned_up_mask_from_bin_up_factor",
     "binned_up_mask_sub_size_1_from_mask", "new_mask_with_new_sub_size",
     "edge_mask", "border_mask", "blurring_mask_from_kernel_shape"}

Init ==
    /\ heap = NoValue
    /\ memo = NoValue
    /\ op = "init"
    /\ call = NoValue
    /\ err = "none"
    /\ region = NoValue
    /\ array = NoValue
    /\ mask = NoValue
    /\ out = NoValue

\* nothing has been built or tried yet
Unconstructed == op = "init"

\* a mask has been built and nothing has been derived from it yet
HasMask == op \in ConstructOps /\ mask # NoValue

\* a construction returned r: the exception or the new mask
Constructed(name, shape, pixel_scales, sub_size, r) ==
    /\ op' = name
    /\ call' = [shape |-> shape, pixel_scales |-> pixel_scales, sub_size |-> sub_size]
    /\ err' = r.err
    /\ mask' = r.value
    /\ out' = r.value
    /\ UNCHANGED <<heap, memo, region, array>>

\* a derivation from the mask returned r: the exception or the derived mask
Derived(name, args, r) ==
    /\ op' = name
    /\ call' = args
    /\ err' = r.err
    /\ out' = r.value
    /\ UNCHANGED <<heap, memo, region, array, mask>>

NewScaledMask ==
    /\ Unconstructed
    /\ \E shape \in LifeShapes, pixel_scales \in ScaleInputs, sub_size \in LifeSubSizes :
         \E g \in Grids(shape) :
             Constructed("ScaledMask", shape, pixel_scales, sub_size,
                         ScaledMask_new(g, shape, pixel_scales, sub_size, <<0, 0>>))

FromFits ==
    /\ Unconstructed
    /\ \E shape \in LifeShapes, pixel_scales \in ScaleInputs, sub_size \in LifeSubSizes :
         \E g \in Grids(shape) :
             Constructed("from_fits", shape, pixel_scales, sub_size,
                         from_fits(g, shape, pixel_scales, sub_size, <<0, 0>>))

NewUnmasked ==
    /\ Unconstructed
    /\ \E shape \in LifeShapes, pixel_scales \in ScaleInputs, sub_size \in LifeSubSizes :
         \E invert \in BOOLEAN :
             Constructed("unmasked", shape, pixel_scales, sub_size,
                         unmasked_from_shape_pixel_scales_and_sub_size(
                             shape, pixel_scales, sub_size, <<0, 0>>, invert))

NewCircular ==
    /\ Unconstructed
    /\ \E shape \in LifeShapes, pixel_scales \in ScaleInputs, sub_size \in LifeSubSizes :
         \E radius_x2 \in LifeRadii_x2, invert \in BOOLEAN :
             Constructed("circular", shape, pixel_scales, sub_size,
                         circular(shape, pixel_scales, radius_x2, sub_size,
                                  <<0, 0>>, <<0, 0>>, invert))

NewCircularAnnular ==
    /\ Unconstructed
    /\ \E shape \in LifeShapes, pixel_scales \in ScaleInputs, sub_size \in LifeSubSizes :
         \E inner_x2 \in LifeRadii_x2, outer_x2 \in LifeRadii_x2 :
             Constructed("circular_annular", shape, pixel_scales, sub_size,
                         circular_annular(shape, pixel_scales, sub_size, inner_x2, outer_x2,
                                          <<0, 0>>, <<0, 0>>, FALSE))

NewCircularAntiAnnular ==
    /\ Unconstructed
    /\ \E shape \in LifeShapes, pixel_scales \in ScaleInputs, sub_size \in LifeSubSizes :
         \E inner_x2 \in LifeRadii_x2, outer_x2 \in LifeRadii_x2 :
             Constructed("circular_anti_annular", shape, pixel_scales, sub_size,
                         circular_anti_annular(shape, pixel_scales, sub_size, inner_x2, outer_x2,
                                               outer_x2 + 1, <<0, 0>>, <<0, 0>>, FALSE))

NewElliptical ==
    /\ Unconstructed
    /\ \E shape \in LifeShapes, pixel_scales \in ScaleInputs, sub_size \in LifeSubSizes :
         \E major_x2 \in LifeRadii_x2, phi \in {0, 90} :
             Constructed("elliptical", shape, pixel_scales, sub_size,
                         elliptical(shape, pixel_scales, major_x2, <<1, 2>>, phi, sub_size,
                                    <<0, 0>>, <<0, 0>>, FALSE))

NewEllipticalAnnular ==
    /\ Unconstructed
    /\ \E shape \in LifeShapes, pixel_scales \in ScaleInputs, sub_size \in LifeSubSizes :
         \E inner_x2 \in LifeRadii_x2, outer_x2 \in LifeRadii_x2 :
             Constructed("elliptical_annular", shape, pixel_scales, sub_size,
                         elliptical_annular(shape, pixel_scales, sub_size,
                             [major_x2 |-> inner_x2, axis_ratio |-> <<1, 2>>, phi |-> 0],
                             [major_x2 |-> outer_x2, axis_ratio |-> <<1, 2>>, phi |-> 0],
                             <<0, 0>>, <<0, 0>>, FALSE))

Resized ==
    /\ HasMask
    /\ \E new_shape \in LifeShapes :
         \E c \in {<<NoValue, NoValue>>, <<Some(<<0, 0>>), NoValue>>,
                   <<Some(<<0, 0>>), Some(<<0, 0>>)>>} :
             Derived("resized_mask_from_new_shape",
                     [new_shape |-> new_shape, new_centre_pixels |-> c[1],
                      new_centre_arcsec |-> c[2]],
                     resized_mask_from_new_shape(mask, new_shape, c[1], c[2]))

BinnedUp ==
    /\ HasMask
    /\ \E bin_up_factor \in BinFactors :
         Derived("binned_up_mask_from_bin_up_factor", [bin_up_factor |-> bin_up_factor],
                 binned_up_mask_from_bin_up_factor(mask, bin_up_factor))

BinnedUpSubSize1 ==
    /\ HasMask
    /\ \E bin_up_factor \in BinFactors :
         Derived("binned_up_mask_sub_size_1_from_mask", [bin_up_factor |-> bin_up_factor],
                 binned_up_mask_sub_size_1_from_mask(mask, bin_up_factor))

NewSubSize ==
    /\ HasMask
    /\ \E sub_size \in LifeSubSizes :
         Derived("new_mask_with_new_sub_size", [sub_size |-> sub_size],
                 new_mask_with_new_sub_size(mask, sub_size))

EdgeMask ==
    /\ HasMask
    /\ Derived("edge_mask", NoValue, edge_mask(mask))

BorderMask ==
    /\ HasMask
    /\ Derived("border_mask", NoValue, border_mask(mask))

BlurringMask ==
    /\ HasMask
    /\ \E kernel_shape \in KernelShapes :
         Derived("blurring_mask_from_kernel_shape", [kernel_shape |-> kernel_shape],
                 blurring_mask_from_kernel_shape(mask, kernel_shape))

Next ==
    \/ NewScaledMask \/ FromFits \/ NewUnmasked \/ NewCircular \/ NewCircularAnnular
    \/ NewCircularAntiAnnular \/ NewElliptical \/ NewEllipticalAnnular
    \/ Resized \/ BinnedUp \/ BinnedUpSubSize1 \/ NewSubSize
    \/ EdgeMask \/ BorderMask \/ BlurringMask

Spec == Init /\ [][Next]_vars

----------------------------------------------------------------------------
(* Claims about construction and the kernel shape.                          *)

\* C3: a construction with a pixel scale that is zero or negative raises
\* MaskException and leaves no mask, whichever way the mask is built; hence
\* no mask that exists, built or derived (resized, binned, edge, border,
\* blurring, new sub_size), has a pixel scale that is not strictly positive.
C3_NonPositiveScaleRaises ==
    /\ (op \in ConstructOps /\ (call.pixel_scales[1] <= 0 \/ call.pixel_scales[2] <= 0)) =>
          /\ err = "MaskException"
          /\ mask = NoValue
          /\ out = NoValue
    /\ mask # NoValue => (mask.pixel_scales[1] > 0 /\ mask.pixel_scales[2] > 0)
    /\ (op \in DerivedOps /\ out # NoValue) =>
          (out.pixel_scales[1] > 0 /\ out.pixel_scales[2] > 0)

\* the circular builder asked for scales (1, 0)
C3_Witness ==
    /\ op = "circular"
    /\ call.pixel_scales = <<1, 0>>
    /\ err = "MaskException"
    /\ mask = NoValue
    /\ out = NoValue

\* C4: blurring_mask_from_kernel_shape raises the kernel-shape error and
\* returns no mask whenever a dimension of the kernel is even; when both are
\* odd it raises nothing and returns a mask.
C4_EvenKernelRaises ==
    op = "blurring_mask_from_kernel_shape" =>
        IF call.kernel_shape[1] % 2 = 0 \/ call.kernel_shape[2] % 2 = 0
        THEN err = "MaskException" /\ out = NoValue
        ELSE err = "none" /\ out # NoValue /\ out.shape = mask.shape

\* the kernel (4, 3)
C4_Witness ==
    /\ op = "blurring_mask_from_kernel_shape"
    /\ call.kernel_shape = <<4, 3>>
    /\ err = "MaskException"
    /\ out = NoValue

----------------------------------------------------------------------------
(* Masks as objects over buffers.  A mask is an ndarray view: the object    *)
(* holds its metadata and the number of the buffer its elements live in,    *)
(* `heap` holds the buffers.  AbstractMask.__new__ returns                   *)
(* array_2d.view(cls), an object over the buffer of array_2d; np.full, the  *)
(* util functions and astype make new arrays.  A parent mask is drawn, one  *)
(* mask is derived from it, and then an element of either is toggled.       *)

\* the object over buffer number buf with the metadata of the mask m
MaskObject(buf, m) ==
    [buf |-> buf, shape |-> m.shape, sub_size |-> m.sub_size,
     sub_length |-> m.sub_length, pixel_scales |-> m.pixel_scales,
     origin |-> m.origin]

\* the mask (metadata and elements) that the object obj shows over the heap h
MaskValue(h, obj) ==
    [shape |-> obj.shape, data |-> h[obj.buf], sub_size |-> obj.sub_size,
     sub_length |-> obj.sub_length, pixel_scales |-> obj.pixel_scales,
     origin |-> obj.origin]

\* cls(array_2d=a, ...) for an array a made by the method: the array is a new
\* buffer and the mask is a view of it
ViewOfNewArray(h, m) ==
    [heap |-> Append(h, m.data), obj |-> MaskObject(Len(h) + 1, m)]

\* (faulty variant: the edge is written into the parent's own buffer)
edge_mask_object_in_place(h, parent) ==
    LET m == edge_mask(MaskValue(h, parent)).value
    IN  [heap |-> [h EXCEPT ![parent.buf] = m.data], obj |-> MaskObject(parent.buf, m)]

\* AbstractMask.edge_mask: mask = np.full(fill_value=True, shape=self.shape)
edge_mask_object(h, parent) ==
    ViewOfNewArray(h, edge_mask(MaskValue(h, parent)).value)

\* AbstractMask.border_mask: mask = np.full(fill_value=True, shape=self.shape)
border_mask_object(h, parent) ==
    ViewOfNewArray(h, border_mask(MaskValue(h, parent)).value)

\* ScaledMask.resized_mask_from_new_shape: array_util's result, .astype("bool")
resized_mask_object(h, parent, new_shape) ==
    ViewOfNewArray(h, resized_mask_from_new_shape(
                          MaskValue(h, parent), new_shape, NoValue, NoValue).value)

\* ScaledMask.binned_up_mask_from_bin_up_factor: binning_util's result
binned_up_mask_object(h, parent, bin_up_factor) ==
    ViewOfNewArray(h, binned_up_mask_from_bin_up_factor(
                          MaskValue(h, parent), bin_up_factor).value)

OwnDerivedOps ==
    {"edge_mask", "border_mask", "resized_mask_from_new_shape",
     "binned_up_mask_from_bin_up_factor"}

InitOwn ==
    /\ memo = NoValue
    /\ op = "init"
    /\ call = NoValue
    /\ err = "none"
    /\ region = NoValue
    /\ array = NoValue
    /\ \E shape \in ParentShapes :
         \E g \in Grids(shape) :
            /\ heap = <<g>>
            /\ mask = MaskObject(1, from_fits(g, shape, <<1, 1>>, 2, <<0, 0>>).value)
    /\ out = NoValue

\* the derivation `name` returned r = [heap, obj]
OwnDerived(name, r) ==
    /\ op' = name
    /\ call' = [parent_before |-> MaskValue(heap, mask)]
    /\ err' = "none"
    /\ heap' = r.heap
    /\ out' = r.obj
    /\ UNCHANGED <<memo, region, array, mask>>

OwnEdgeMask ==
    /\ op = "init"
    /\ OwnDerived("edge_mask", edge_mask_object(heap, mask))

OwnBorderMask ==
    /\ op = "init"
    /\ OwnDerived("border_mask", border_mask_object(heap, mask))

OwnResized ==
    /\ op = "init"
    /\ \E new_shape \in ParentShapes :
         OwnDerived("resized_mask_from_new_shape",
                    resized_mask_object(heap, mask, new_shape))

OwnBinnedUp ==
    /\ op = "init"
    /\ \E bin_up_factor \in BinFactors :
         OwnDerived("binned_up_mask_from_bin_up_factor",
                    binned_up_mask_object(heap, mask, bin_up_factor))

\* AbstractSubMask.new_mask_with_new_sub_size: cls(array_2d=self, ...), and
\* AbstractMask.__new__ returns array_2d.view(cls), a view of self's buffer
new_sub_size_mask_object(h, parent, sub_size) ==
    [heap |-> h,
     obj |-> MaskObject(parent.buf,
                        new_mask_with_new_sub_size(MaskValue(h, parent), sub_size).value)]

OwnNewSubSize ==
    /\ op = "init"
    /\ \E sub_size \in SubSizes :
         LET r == new_sub_size_mask_object(heap, mask, sub_size)
         IN  /\ op' = "new_mask_with_new_sub_size"
             /\ call' = [parent_before |-> MaskValue(heap, mask), sub_size |-> sub_size]
             /\ err' = "none"
             /\ heap' = r.heap
             /\ out' = r.obj
             /\ UNCHANGED <<memo, region, array, mask>>

\* obj[p] = not obj[p], written through the view to its buffer
Toggle(who, obj) ==
    /\ op \in OwnDerivedOps \cup {"new_mask_with_new_sub_size"}
    /\ \E p \in Pixels(obj.shape) :
         /\ op' = "toggle"
         /\ call' = [derived_by |-> op, who |-> who, p |-> p,
                     parent_before |-> MaskValue(heap, mask),
                     derived_before |-> MaskValue(heap, out)]
         /\ heap' = [heap EXCEPT ![obj.buf][p] = ~@]
         /\ UNCHANGED <<memo, err, region, array, mask, out>>

ToggleDerived == Toggle("derived", out)

ToggleParent == Toggle("parent", mask)

NextOwn ==
    \/ OwnEdgeMask \/ OwnBorderMask \/ OwnResized \/ OwnBinnedUp
    \/ OwnNewSubSize \/ ToggleDerived \/ ToggleParent

SpecOwn == InitOwn /\ [][NextOwn]_vars

----------------------------------------------------------------------------
(* Claims about ownership.                                                  *)

\* the mask m with element p toggled
Toggled(m, p) == [m EXCEPT !.data[p] = ~@]

\* C17: a mask derived by edge_mask, border_mask, resized_mask_from_new_shape
\* or binned_up_mask_from_bin_up_factor is an object over a buffer of its
\* own; deriving it leaves the parent's grid, shape, pixel_scales, sub_size
\* and origin as they were, and toggling an element of the derived mask (of
\* the parent) afterwards changes that element only and nothing of the
\* parent (of the derived mask).
C17_OwnBuffer ==
    /\ op \in OwnDerivedOps =>
          /\ out.buf # mask.buf
          /\ MaskValue(heap, mask) = call.parent_before
    /\ (op = "toggle" /\ call.derived_by \in OwnDerivedOps) =>
          IF call.who = "derived"
          THEN /\ MaskValue(heap, mask) = call.parent_before
               /\ MaskValue(heap, out) = Toggled(call.derived_before, call.p)
          ELSE /\ MaskValue(heap, out) = call.derived_before
               /\ MaskValue(heap, mask) = Toggled(call.parent_before, call.p)

\* an element of the edge mask of a 2 x 2 mask is toggled; the parent keeps
\* its four unmasked pixels
C17_Witness ==
    /\ op = "toggle"
    /\ call.derived_by = "edge_mask"
    /\ call.who = "derived"
    /\ call.p = <<0, 0>>
    /\ mask.shape = <<2, 2>>
    /\ Unmasked(MaskValue(heap, mask)) = Pixels(<<2, 2>>)
    /\ Unmasked(MaskValue(heap, out)) = Pixels(<<2, 2>>) \ {<<0, 0>>}


(***************************************************************************)
(* Sub-pixel masks built with any integer sub_size, and what is derived    *)
(* from them.                                                              *)
(***************************************************************************)

\* the sub_size values a caller may pass, the invalid ones (< 1) included
SubSizeInputs == (0 - MaxSub) .. MaxSub

ValidScaleInputs == {ps \in ScaleInputs : ps[1] > 0 /\ ps[2] > 0}

\* PixelSubMask(array_2d, sub_size)
SubNewPixelSubMask ==
    /\ Unconstructed
    /\ \E shape \in LifeShapes, sub_size \in SubSizeInputs :
         \E g \in Grids(shape) :
             LET r == AbstractSubMask_new(g, shape, sub_size)
             IN  /\ op' = "PixelSubMask"
                 /\ call' = [shape |-> shape, sub_size |-> sub_size]
                 /\ err' = r.err
                 /\ mask' = r.value
                 /\ out' = r.value
                 /\ UNCHANGED <<heap, memo, region, array>>

\* ScaledMask(array_2d, pixel_scales, sub_size) with valid pixel scales
SubNewScaledMask ==
    /\ Unconstructed
    /\ \E shape \in LifeShapes, pixel_scales \in ValidScaleInputs, sub_size \in SubSizeInputs :
         \E g \in Grids(shape) :
             Constructed("ScaledMask", shape, pixel_scales, sub_size,
                         ScaledMask_new(g, shape, pixel_scales, sub_size, <<0, 0>>))

\* mask.new_mask_with_new_sub_size(sub_size)
SubNewSubSize ==
    /\ HasMask
    /\ \E sub_size \in SubSizeInputs :
         Derived("new_mask_with_new_sub_size", [sub_size |-> sub_size],
                 new_mask_with_new_sub_size(mask, sub_size))

NextSub ==
    \/ SubNewPixelSubMask \/ SubNewScaledMask \/ SubNewSubSize
    \/ Resized \/ BinnedUp \/ BinnedUpSubSize1
    \/ EdgeMask \/ BorderMask \/ BlurringMask

SpecSub == Init /\ [][NextSub]_vars

SubSizeOk(m) == m.sub_size >= 1 /\ m.sub_length = m.sub_size * m.sub_size

\* C18: every sub-pixel mask that exists, built or derived, has sub_size >= 1
\* and sub_length = sub_size^2, and a request to build a mask with
\* sub_size < 1 (by construction or by new_mask_with_new_sub_size) yields no
\* mask.
C18_SubSizeAtLeastOne ==
    /\ mask # NoValue => SubSizeOk(mask)
    /\ out # NoValue => SubSizeOk(out)
    /\ (op \in {"PixelSubMask", "ScaledMask", "new_mask_with_new_sub_size"}
          /\ call.sub_size < 1) => out = NoValue


(***************************************************************************)
(* The memoized accessors of a mask, called on two mask instances.         *)
(***************************************************************************)

\* grid_util.grid_centre_from_grid_1d: the midpoint of the extreme
\* coordinates, as a fraction over twice the grid's denominator; an empty
\* grid has no extremes
grid_centre_from_grid_1d(grid_1d) ==
    IF Len(grid_1d.pts) = 0
    THEN [err |-> "ValueError", value |-> NoValue]
    ELSE LET ys == {grid_1d.pts[k][1] : k \in 1 .. Len(grid_1d.pts)}
             xs == {grid_1d.pts[k][2] : k \in 1 .. Len(grid_1d.pts)}
         IN  [err |-> "none",
              value |-> [den |-> 2 * grid_1d.den,
                         pt |-> <<SetMax(ys) + SetMin(ys), SetMax(xs) + SetMin(xs)>>]]

\* ScaledMask.mask_centre
mask_centre(m) == grid_centre_from_grid_1d(masked_grid(m))

MemoizedNames ==
    {"blurring_mask_from_kernel_shape", "mask_centre",
     "mask_1d_index_for_sub_mask_1d_index"}

\* the function a memoized accessor wraps
Wrapped(m, name, args) ==
    CASE name = "blurring_mask_from_kernel_shape" ->
             blurring_mask_from_kernel_shape(m, args)
      [] name = "mask_centre" -> mask_centre(m)
      [] name = "mask_1d_index_for_sub_mask_1d_index" ->
             mask_1d_index_for_sub_mask_1d_index(m)

\* (faulty variant: one store per accessor for all instances)
MemoKey_shared(instance, name, args) == <<1, name, args>>

\* array_util.Memoizer: a result is stored for the instance, the accessor
\* and the accessor's arguments
MemoKey(instance, name, args) == <<instance, name, args>>

MemoShape == <<1, 2>>

\* the masks an instance may be: every grid, with sub_size 1 at the origin
\* or with a larger sub_size and a shifted origin
MemoMasks ==
    {from_fits(g, MemoShape, <<1, 1>>, meta[1], meta[2]).value :
        g \in Grids(MemoShape),
        meta \in {<<1, <<0, 0>>>>, <<MaxSub, <<MaxOrigin, -MaxOrigin>>>>}}

MemoKernelShapes ==
    {<<1, 1>>, <<2, 2>>, <<2 * MaxKernelHalf + 1, 2 * MaxKernelHalf + 1>>}

MemoArgs(name) ==
    IF name = "blurring_mask_from_kernel_shape" THEN MemoKernelShapes ELSE {NoValue}

MemoKeys ==
    UNION {{<<i, name, args>> : i \in 1 .. 2, args \in MemoArgs(name)} :
              name \in MemoizedNames}

InitMemo ==
    /\ op = "init"
    /\ call = NoValue
    /\ err = "none"
    /\ region = NoValue
    /\ array = NoValue
    /\ mask = NoValue
    /\ out = NoValue
    /\ \E a \in MemoMasks, b \in MemoMasks : heap = <<a, b>>
    /\ memo = [results |-> [k \in MemoKeys |-> NoValue],
               calls |-> [k \in MemoKeys |-> 0]]

\* the wrapper of array_util.Memoizer around a call on heap[instance]: a
\* stored result is returned; otherwise the accessor runs, and its result
\* (not its exception) is stored
Memoized(instance, name, args) ==
    LET k == MemoKey(instance, name, args)
        stored == memo.results[k]
        r == Wrapped(heap[instance], name, args)
    IN  /\ op' = name
        /\ call' = [instance |-> instance, args |-> args, stored_before |-> stored]
        /\ IF stored # NoValue
           THEN /\ err' = "none"
                /\ out' = stored.v
                /\ memo' = memo
           ELSE /\ err' = r.err
                /\ out' = r.value
                /\ memo' = IF r.err = "none"
                           THEN [results |-> [memo.results EXCEPT ![k] = Some(r.value)],
                                 calls |-> [memo.calls EXCEPT
                                               ![<<instance, name, args>>] = @ + 1]]
                           ELSE memo
        /\ UNCHANGED <<heap, region, array, mask>>

MemoBlurringMask ==
    \E instance \in 1 .. 2, kernel_shape \in MemoKernelShapes :
        Memoized(instance, "blurring_mask_from_kernel_shape", kernel_shape)

MemoMaskCentre ==
    \E instance \in 1 .. 2 : Memoized(instance, "mask_centre", NoValue)

MemoSubIndexTable ==
    \E instance \in 1 .. 2 :
        Memoized(instance, "mask_1d_index_for_sub_mask_1d_index", NoValue)

NextMemo == MemoBlurringMask \/ MemoMaskCentre \/ MemoSubIndexTable

SpecMemo == InitMemo /\ [][NextMemo]_vars

GridSubMask2dIndex ==
    /\ op = "init"
    /\ op' = "sub_mask_2d_index_for_sub_mask_1d_index"
    /\ out' = [value |-> sub_mask_2d_index_for_sub_mask_1d_index(mask)]
    /\ UNCHANGED <<heap, memo, call, err, region, array, mask>>

GridSubMask ==
    /\ op = "init"
    /\ op' = "sub_mask"
    /\ out' = sub_mask(mask)
    /\ UNCHANGED <<heap, memo, call, err, region, array, mask>>

GridSubToPixel ==
    /\ op = "init"
    /\ op' = "mask_1d_index_for_sub_mask_1d_index"
    /\ out' = [value |-> mask_1d_index_for_sub_mask_1d_index(mask).value]
    /\ UNCHANGED <<heap, memo, call, err, region, array, mask>>

NextSubTable ==
    GridSubMask2dIndex \/ GridSubMask \/ GridSubToPixel \/ GridMaskedSubGrid

SpecSubTable == InitGrid /\ [][NextSubTable]_vars

(***************************************************************************)
(* Claims about the sub-pixel tables and the expanded grid.                *)
(***************************************************************************)

\* the pixel a sub-pixel coordinate of the expanded grid lies in
ParentOf(q, sub_size) == <<q[1] \div sub_size, q[2] \div sub_size>>

\* position of a pixel in the row-major scan of a grid with the given width
ScanIndex(p, width) == p[1] * width + p[2]

\* every unmasked sub-pixel is listed exactly once and none of a masked pixel
ListsUnmaskedSubPixelsOnce(t, m) ==
    /\ Len(t) = pixels_in_mask(m) * m.sub_size * m.sub_size
    /\ \A k \in 1 .. Len(t) :
          /\ ParentOf(t[k], m.sub_size) \in Pixels(m.shape)
          /\ ~m.data[ParentOf(t[k], m.sub_size)]
    /\ Cardinality({t[k] : k \in 1 .. Len(t)}) = Len(t)

\* the expanded grid repeats every pixel's state over its block
ExpandedGridOk(g, m) ==
    /\ g.shape = <<m.shape[1] * m.sub_size, m.shape[2] * m.sub_size>>
    /\ \A q \in Pixels(g.shape) : g.data[q] = m.data[ParentOf(q, m.sub_size)]

RoeCorners == {<<1, 0>>, <<0, 0>>, <<1, 1>>, <<0, 1>>}

\* np.flipud, np.fliplr
flipud(a) ==
    [a EXCEPT !.data = [p \in Pixels(a.shape) |-> a.data[<<a.shape[1] - 1 - p[1], p[2]>>]]]
fliplr(a) ==
    [a EXCEPT !.data = [p \in Pixels(a.shape) |-> a.data[<<p[1], a.shape[2] - 1 - p[2]>>]]]

\* the array (or mask) turned to the orientation of the read-out corner
rotate_array_from_roe_corner(a, roe_corner) ==
    CASE roe_corner = <<1, 0>> -> a
      [] roe_corner = <<0, 0>> -> flipud(a)
      [] roe_corner = <<1, 1>> -> fliplr(a)
      [] roe_corner = <<0, 1>> -> fliplr(flipud(a))

\* (faulty variant: the rows of a region are not reversed with the array)
rotate_region_columns_only(t, shape, roe_corner) ==
    IF roe_corner[2] = 1 THEN <<t[1], t[2], shape[2] - t[4], shape[2] - t[3]>> ELSE t

\* a scan region turned with the array
rotate_region_from_roe_corner(t, shape, roe_corner) ==
    CASE roe_corner = <<1, 0>> -> t
      [] roe_corner = <<0, 0>> -> <<shape[1] - t[2], shape[1] - t[1], t[3], t[4]>>
      [] roe_corner = <<1, 1>> -> <<t[1], t[2], shape[2] - t[4], shape[2] - t[3]>>
      [] roe_corner = <<0, 1>> ->
             <<shape[1] - t[2], shape[1] - t[1], shape[2] - t[4], shape[2] - t[3]>>

\* the values of an array under a mask: a masked entry is stored as 0
MaskedValues(a, m) ==
    [a EXCEPT !.data = [p \in Pixels(a.shape) |-> IF m.data[p] THEN 0 ELSE a.data[p]]]

UnmaskedGrid(shape) == [shape |-> shape, data |-> np_full(shape, FALSE)]

\* Frame2D.manual_mask(array, mask, roe_corner, scans)
Frame2D_manual_mask(a, m, roe_corner, scan) ==
    [array |-> rotate_array_from_roe_corner(MaskedValues(a, m), roe_corner),
     mask |-> rotate_array_from_roe_corner(m, roe_corner),
     scans |-> rotate_region_from_roe_corner(scan, a.shape, roe_corner),
     original_roe_corner |-> roe_corner]

\* Frame2D.manual(array, roe_corner, scans): the mask is all unmasked
Frame2D_manual(a, roe_corner, scan) ==
    Frame2D_manual_mask(a, UnmaskedGrid(a.shape), roe_corner, scan)

\* Frame2D.original_orientation
original_orientation(frame) ==
    rotate_array_from_roe_corner(frame.array, frame.original_roe_corner)

\* the scan regions that lie in a frame of the shape
ScanRegions(shape) ==
    {t \in (0 .. shape[1]) \X (0 .. shape[1]) \X (0 .. shape[2]) \X (0 .. shape[2]) :
        t[1] < t[2] /\ t[3] < t[4]}

\* the masks with one masked pixel
OneMaskedPixel(shape) ==
    {[shape |-> shape, data |-> [p \in Pixels(shape) |-> p = q]] : q \in Pixels(shape)}

InitFrame ==
    /\ heap = NoValue
    /\ memo = NoValue
    /\ op = "init"
    /\ call = NoValue
    /\ err = "none"
    /\ region = NoValue
    /\ \E shape \in Shapes : array = CountingArray(shape)
    /\ mask = NoValue
    /\ out = NoValue

FrameManual ==
    /\ op = "init"
    /\ \E roe_corner \in RoeCorners, scan \in ScanRegions(array.shape) :
         /\ op' = "manual"
         /\ call' = [roe_corner |-> roe_corner, scan |-> scan]
         /\ mask' = UnmaskedGrid(array.shape)
         /\ out' = Frame2D_manual(array, roe_corner, scan)
    /\ UNCHANGED <<heap, memo, err, region, array>>

FrameManualMask ==
    /\ op = "init"
    /\ \E roe_corner \in RoeCorners, scan \in ScanRegions(array.shape),
          m \in OneMaskedPixel(array.shape) :
         /\ op' = "manual_mask"
         /\ call' = [roe_corner |-> roe_corner, scan |-> scan]
         /\ mask' = m
         /\ out' = Frame2D_manual_mask(array, m, roe_corner, scan)
    /\ UNCHANGED <<heap, memo, err, region, array>>

FrameOriginalOrientation ==
    /\ op \in {"manual", "manual_mask"}
    /\ op' = "original_orientation"
    /\ out' = [frame |-> out, value |-> original_orientation(out)]
    /\ UNCHANGED <<heap, memo, call, err, region, array, mask>>

NextFrame == FrameManual \/ FrameManualMask \/ FrameOriginalOrientation

SpecFrame == InitFrame /\ [][NextFrame]_vars

RowsReversed(a) ==
    [p \in Pixels(a.shape) |-> a.data[<<a.shape[1] - 1 - p[1], p[2]>>]]
ColsReversed(a) ==
    [p \in Pixels(a.shape) |-> a.data[<<p[1], a.shape[2] - 1 - p[2]>>]]
BothReversed(a) ==
    [p \in Pixels(a.shape) |->
        a.data[<<a.shape[1] - 1 - p[1], a.shape[2] - 1 - p[2]>>]]

Reversed(a, roe_corner) ==
    CASE roe_corner = <<1, 0>> -> a.data
      [] roe_corner = <<0, 0>> -> RowsReversed(a)
      [] roe_corner = <<1, 1>> -> ColsReversed(a)
      [] roe_corner = <<0, 1>> -> BothReversed(a)

\* the pixels of the given array a region selects, as positions of the array
\* as given: a pixel of the frame is traced back through the reversal
SelectedOfGiven(t, shape, roe_corner) ==
    {<<IF roe_corner[1] = 0 THEN shape[1] - 1 - p[1] ELSE p[1],
       IF roe_corner[2] = 1 THEN shape[2] - 1 - p[2] ELSE p[2]>> :
        p \in (t[1] .. t[2] - 1) \X (t[3] .. t[4] - 1)}

ElementBytes(dtype, v) ==
    IF dtype = "int8" THEN <<v % 256>> ELSE <<v % 256, (v \div 256) % 256>>

RECURSIVE ToBytesFrom(_, _, _)
ToBytesFrom(dtype, data, k) ==
    IF k > Len(data) THEN << >>
    ELSE ElementBytes(dtype, data[k]) \o ToBytesFrom(dtype, data, k + 1)

\* ndarray.tobytes(): the elements' bytes in row-major order; neither the
\* shape nor the element type is part of them
tobytes(grid) == ToBytesFrom(grid.dtype, grid.data, 1)

\* grids of equal bytes (1, 0) that differ in shape or element type, and a
\* grid of other bytes
CacheGrids ==
    {[shape |-> sh, dtype |-> "int8", data |-> <<1, 0>>] : sh \in {<<1, 2>>, <<2, 1>>}}
    \cup {[shape |-> <<1, 1>>, dtype |-> "int16", data |-> <<1>>],
          [shape |-> <<1, 2>>, dtype |-> "int8", data |-> <<0, 1>>]}

CacheMethods == {"potential_from_grid", "deflections_from_grid"}

\* the number of results the stores hold together is kept to this
MaxCacheEntries == 2

\* the extra argument of a call: left out (the method's default) or given
NoExtra == "default"
CacheExtras == {NoExtra, "given"}

\* the undecorated method: its value tells the instance, the method, the
\* grid and the extra argument it was called with
Undecorated(instance, name, grid, extra) ==
    [param |-> instance.param, method |-> name, grid |-> grid, extra |-> extra]

\* (faulty variant: the store is looked up on the first instance, whichever
\* instance is called)
CacheOwner_shared(i) == 1

\* the object whose attribute `cache` holds the store: the instance called
CacheOwner(i) == i

\* instance.cache as a set of (key, value) entries; has_cache is
\* hasattr(instance, "cache"), and an instance without the attribute is given
\* an empty store
Entries(instance) == IF instance.has_cache THEN instance.cache ELSE {}

InitCache ==
    /\ op = "init"
    /\ call = NoValue
    /\ err = "none"
    /\ region = NoValue
    /\ array = NoValue
    /\ mask = NoValue
    /\ out = NoValue
    /\ heap = <<[param |-> 1, has_cache |-> FALSE, cache |-> {}],
                 [param |-> 2, has_cache |-> FALSE, cache |-> {}]>>
    /\ memo = {}

\* wrapper(instance, grid, *args, **kwargs); memo keeps what every call so
\* far was asked and returned
CachedCall ==
    \E i \in 1 .. 2, name \in CacheMethods, grid \in CacheGrids, extra \in CacheExtras :
        LET owner == CacheOwner(i)
            key == <<name, tobytes(grid)>>
            hits == {e \in Entries(heap[owner]) : e.key = key}
            value == IF hits # {}
                     THEN (CHOOSE e \in hits : TRUE).value
                     ELSE Undecorated(heap[i], name, grid, NoExtra)
        IN  /\ (hits # {} \/ Cardinality(memo) < MaxCacheEntries)
            /\ op' = "cache"
            /\ call' = [instance |-> i, method |-> name, grid |-> grid, extra |-> extra,
                        invoked |-> hits = {}, earlier |-> memo]
            /\ heap' = [heap EXCEPT
                            ![owner].has_cache = TRUE,
                            ![owner].cache =
                                Entries(heap[owner]) \cup {[key |-> key, value |-> value]}]
            /\ out' = value
            /\ memo' = memo \cup {[instance |-> i, method |-> name,
                                    bytes |-> tobytes(grid), result |-> value]}
            /\ UNCHANGED <<err, region, array, mask>>

NextCache == CachedCall

SpecCache == InitCache /\ [][NextCache]_vars

\* C23: a call with the bytes, the method and the instance of an earlier call
\* returns what that call returned without invoking the method, and no call
\* returns what a call on another instance returned.
C23_CachePerInstance ==
    op = "cache" =>
      /\ \A h \in call.earlier :
            (h.instance = call.instance /\ h.method = call.method
               /\ h.bytes = tobytes(call.grid)) =>
                  (out = h.result /\ ~call.invoked)
      /\ \A h \in call.earlier : h.instance # call.instance => out # h.result

\* the second instance is called with the method and the grid the first was
\* called with, and then once more
C23_Witness ==
    /\ op = "cache"
    /\ call.instance = 2
    /\ ~call.invoked
    /\ \E h \in call.earlier :
          /\ h.instance = 1
          /\ h.method = call.method
          /\ h.bytes = tobytes(call.grid)

C24_ResizeKeepsOrigin ==
    (op = "resized" /\ err = "none") =>
      /\ out.pixel_scales = mask.pixel_scales
      /\ out.sub_size = mask.sub_size
      /\ (call.new_centre_pixels = NoValue /\ call.new_centre_arcsec = NoValue) =>
            out.origin = mask.origin


\* C25: new_mask_with_new_sub_size(s) returns a mask with the parent's grid,
\* pixel_scales and origin, sub_size s and sub_length s^2; the parent is as
\* before; and a toggle of an element of either mask afterwards changes that
\* mask only.
C25_NewSubSizeIndependent ==
    /\ op = "new_mask_with_new_sub_size" =>
          /\ MaskValue(heap, out) =
                [call.parent_before EXCEPT !.sub_size = call.sub_size,
                                           !.sub_length = call.sub_size * call.sub_size]
          /\ MaskValue(heap, mask) = call.parent_before
    /\ (op = "toggle" /\ call.derived_by = "new_mask_with_new_sub_size") =>
          IF call.who = "derived"
          THEN /\ MaskValue(heap, mask) = call.parent_before
               /\ MaskValue(heap, out) = Toggled(call.derived_before, call.p)
          ELSE /\ MaskValue(heap, out) = call.derived_before
               /\ MaskValue(heap, mask) = Toggled(call.parent_before, call.p)

----------------------------------------------------------------------------
(* Claim about the round trip between pixels and coordinates.               *)

\* C27: the coordinate that the unmasked grid holds for the centre of a pixel
\* (r, c) is converted back to (r, c), for every shape, scale and origin
C27_RoundTrip ==
    op = "round_trip" =>
        /\ unmasked_grid(mask).den = 2
        /\ out.value = call.pixel

\* a round trip in a mask with an origin off the grid's centre and an even
\* side, for a pixel that is not the first
C27_Witness ==
    /\ op = "round_trip"
    /\ mask.origin # <<0, 0>>
    /\ mask.shape[2] % 2 = 0
    /\ call.pixel[1] > 0
    /\ call.pixel[2] > 0
    /\ out.value = call.pixel

----------------------------------------------------------------------------
(* Claim about the zoom region and the grid it is cut from.                 *)

\* C28: for a mask of shape (H, W) with an unmasked pixel the zoom region
\* [y0, y1, x0, x1] lies inside the grid: 0 <= y0 < y1 <= H and
\* 0 <= x0 < x1 <= W
C28_ZoomInsideMask ==
    (op = "zoom_region" /\ Unmasked(mask) # {}) =>
        LET z == out.value
        IN  /\ err = "none"
            /\ 0 <= z[1] /\ z[1] < z[2] /\ z[2] <= mask.shape[1]
            /\ 0 <= z[3] /\ z[3] < z[4] /\ z[4] <= mask.shape[2]

\* the padding of the shorter side of a bounding box <<ymin, ymax, xmin, xmax>>
ZoomPad(b) ==
    LET ylength == b[2] - b[1]
        xlength == b[4] - b[3]
    IN  IF ylength > xlength
        THEN TruncDiv(ylength - xlength, 2)
        ELSE TruncDiv(xlength - ylength, 2)

\* C28, as the code has it: the zoom region is not empty, it lies inside the
\* grid along the longer side of the bounding box of the unmasked pixels, and
\* along the shorter side it lies inside the grid exactly when the bounding
\* box is at least the padding away from both edges of the grid
C28_ZoomInsideWhenRoom ==
    (op = "zoom_region" /\ Unmasked(mask) # {}) =>
        LET z == out.value
            b == BoundingBox(mask)
            pad == ZoomPad(b)
            H == mask.shape[1]
            W == mask.shape[2]
        IN  /\ err = "none"
            /\ z[1] < z[2] /\ z[3] < z[4]
            /\ (b[2] - b[1] >= b[4] - b[3]) =>
                  /\ 0 <= z[1] /\ z[2] <= H
                  /\ (0 <= z[3]) <=> (b[3] >= pad)
                  /\ (z[4] <= W) <=> (b[4] + pad < W)
            /\ (b[4] - b[3] >= b[2] - b[1]) =>
                  /\ 0 <= z[3] /\ z[4] <= W
                  /\ (0 <= z[1]) <=> (b[1] >= pad)
                  /\ (z[2] <= H) <=> (b[2] + pad < H)

\* a zoom region that leaves its grid at both ends of the shorter side
C28_Witness ==
    /\ op = "zoom_region"
    /\ Unmasked(mask) # {}
    /\ out.value[1] < 0
    /\ out.value[2] > mask.shape[1]

----------------------------------------------------------------------------
(* Chains of derivations: every derived mask is derived from in its turn.   *)
(* heap counts the steps taken, mask is the mask the next step starts from. *)

MaxChain == 2

ChainShape == <<2, 2>>
ChainNewShapes == {<<1, 2>>, <<3, 3>>}
ChainKernelShapes == {<<1, 1>>, <<3, 3>>, <<2, 3>>}
ChainBinFactors == (0 - MaxBinFactor) .. MaxBinFactor
ChainOps ==
    {"resized_mask_from_new_shape", "binned_up_mask_from_bin_up_factor",
     "binned_up_mask_sub_size_1_from_mask", "new_mask_with_new_sub_size",
     "edge_mask", "border_mask", "blurring_mask_from_kernel_shape"}

\* ScaledMask(array_2d, pixel_scales, sub_size) with valid arguments
InitChain ==
    /\ heap = 0
    /\ memo = NoValue
    /\ op = "init"
    /\ call = NoValue
    /\ err = "none"
    /\ region = NoValue
    /\ array = NoValue
    /\ \E g \in Grids(ChainShape) :
         \E pixel_scales \in ValidScaleInputs :
           \E sub_size \in LifeSubSizes :
             mask = ScaledMask_new(g, ChainShape, pixel_scales, sub_size, <<0, 0>>).value
    /\ out = NoValue

\* mask = mask.<name>(args): the name is bound to the result when there is one
ChainStep(name, args, r) ==
    /\ op' = name
    /\ call' = args
    /\ err' = r.err
    /\ out' = r.value
    /\ mask' = IF r.err = "none" THEN r.value ELSE mask
    /\ heap' = heap + 1
    /\ UNCHANGED <<memo, region, array>>

ChainResized ==
    /\ heap < MaxChain
    /\ \E new_shape \in ChainNewShapes :
         \E c \in {<<NoValue, NoValue>>, <<Some(<<0, 0>>), NoValue>>,
                   <<Some(<<0, 0>>), Some(<<0, 0>>)>>} :
             ChainStep("resized_mask_from_new_shape",
                       [new_shape |-> new_shape, new_centre_pixels |-> c[1],
                        new_centre_arcsec |-> c[2]],
                       resized_mask_from_new_shape(mask, new_shape, c[1], c[2]))

ChainBinnedUp ==
    /\ heap < MaxChain
    /\ \E bin_up_factor \in ChainBinFactors :
         ChainStep("binned_up_mask_from_bin_up_factor", [bin_up_factor |-> bin_up_factor],
                   binned_up_mask_from_bin_up_factor(mask, bin_up_factor))

ChainBinnedUpSubSize1 ==
    /\ heap < MaxChain
    /\ \E bin_up_factor \in ChainBinFactors :
         ChainStep("binned_up_mask_sub_size_1_from_mask", [bin_up_factor |-> bin_up_factor],
                   binned_up_mask_sub_size_1_from_mask(mask, bin_up_factor))

ChainNewSubSize ==
    /\ heap < MaxChain
    /\ \E sub_size \in LifeSubSizes :
         ChainStep("new_mask_with_new_sub_size", [sub_size |-> sub_size],
                   new_mask_with_new_sub_size(mask, sub_size))

ChainEdgeMask ==
    /\ heap < MaxChain
    /\ ChainStep("edge_mask", NoValue, edge_mask(mask))

ChainBorderMask ==
    /\ heap < MaxChain
    /\ ChainStep("border_mask", NoValue, border_mask(mask))

ChainBlurringMask ==
    /\ heap < MaxChain
    /\ \E kernel_shape \in ChainKernelShapes :
         ChainStep("blurring_mask_from_kernel_shape", [kernel_shape |-> kernel_shape],
                   blurring_mask_from_kernel_shape(mask, kernel_shape))

NextChain ==
    \/ ChainResized \/ ChainBinnedUp \/ ChainBinnedUpSubSize1 \/ ChainNewSubSize
    \/ ChainEdgeMask \/ ChainBorderMask \/ ChainBlurringMask

SpecChain == InitChain /\ [][NextChain]_vars

ScalesPositive(m) == m.pixel_scales[1] > 0 /\ m.pixel_scales[2] > 0

\* every mask a chain returns, and every mask a step starts from, has both
\* pixel scales above zero, and a bin-up factor at or below zero returns none
ChainScalesPositive ==
    /\ ScalesPositive(mask)
    /\ (op \in ChainOps /\ err = "none") => ScalesPositive(out)
    /\ (op \in ChainOps /\ "bin_up_factor" \in DOMAIN call) =>
          (call.bin_up_factor <= 0 => (err # "none" /\ out = NoValue))

============================================================================
